---- MODULE Spec2Model ----
(***************************************************************************)
(* ASFMLoggerPython (wrappers/python/asfm_logger.py): the bounded local    *)
(* log queue of one logger instance, its producers (_log_with_component),  *)
(* its readers (get_local_logs, get_log_statistics, export_logs_to_file),  *)
(* clear_local_logs and the monitoring threads started by                  *)
(* enable_real_time_monitoring; the native logger and the console that     *)
(* ingestion forwards to, configure_enhanced, the file an export writes,   *)
(* and the loggers get_logger returns.                                     *)
(*                                                                         *)
(* Threads interleave at the granularity the interpreter allows: a thread  *)
(* switch may happen between any two statements, and between two           *)
(* iterations of a loop.  Code that runs inside "with self._queue_lock"    *)
(* excludes only other code that also takes the lock.                      *)
(***************************************************************************)
EXTENDS Integers, Sequences, FiniteSets, TLC

\* ------------------------------------------------------------------ bounds

\* The queue limit of line 200 (1000 in the source), scaled down.
Capacity == 2

\* The default of get_local_logs' limit argument (100 in the source, line
\* 277), scaled down with the queue limit: a tenth of it there, less than it
\* here.
DefaultLimit == 1

\* Ingestion calls made in all, by whichever producer threads.
TotalCalls == 3

\* The wall clock runs from 0 to MaxTime, in ticks.
MaxTime == 2

\* Clock ticks per millisecond (1000 microseconds in the source): the
\* timestamp string keeps milliseconds, time.time() is finer.
TicksPerMs == 2

\* How many logger objects are constructed at most.
MaxLoggers == 4

Producers == {"p1", "p2"}
Readers == {"r1"}
Pollers == {"m1", "m2"}

\* The ingestion methods used (two of trace/debug/info/warn/error/critical)
\* and the component arguments used.
Methods == {"info", "error"}
Components == {"A", "B"}

\* The six ingestion methods of lines 141-163.
LevelMethods == {"trace", "debug", "info", "warn", "error", "critical"}

\* The arguments a caller passes to an ingestion method: the message, and
\* component and function when it supplies them.  test_function_tracking
\* passes all three, test_database_error_handling no function, and a message
\* alone is the plainest call.
CallArguments ==
    {[message |-> "Mixed Case"],
     [message |-> "Error with invalid DB config", component |-> "ErrorTest"],
     [message |-> "m", function |-> "processData"],
     [message |-> "Debug in function", component |-> "Test", function |-> "testFunction"]}

\* Arguments of get_local_logs.
ComponentFilters == {"", "A", "B", "a"}
LevelFilters == {"", "info", "INFO", "Error", "error"}
Limits == 0..(Capacity + 1)

\* Values of interval_seconds, in ticks, and the kinds of callback passed:
\* none, one that returns, one that raises.
Intervals == {1}
Callbacks == {"None", "returns", "raises"}

None == "None"
Free == "free"
Handle == "handle"

\* sys.stdout as print finds it: "works" prints every line; "rejects" raises
\* on the line of an event (an encoding that cannot represent the message,
\* UnicodeEncodeError) and prints the lines the logger words itself;
\* "closed" raises on every line (ValueError: I/O operation on closed file).
ConsoleStates == {"works", "rejects", "closed"}

VARIABLES
    local_queue,   \* self._local_queue: sequence of event records
    queue_lock,    \* self._queue_lock: Free or the thread inside the with block
    now,           \* the wall clock, in ticks
    producer,      \* per producer thread: position, event under construction, calls made
    appended,      \* history: ids of the events appended, in append order
    reader,        \* per reader thread: position and the locals of the running call
    poller,        \* per monitoring thread: position and the locals of monitoring_loop
    delivered,     \* history: per monitoring thread, the batches passed to the callback
    library_loaded, \* self._library_loaded
    logger,        \* self._logger: None or the handle getInstance returned
    console,       \* what sys.stdout does with a print: see ConsoleStates
    printed,       \* history: ids of the events whose line reached the console
    configured,    \* history: the last configure_enhanced call and how it ended
    file,          \* the file at the path given to export_logs_to_file
    instances,     \* the loggers get_logger has returned, per name bound to them
    lists,         \* the list objects those loggers made, by reference
    global_logger, \* _global_logger of line 475, with the history of its configuration
    quick_logged   \* history: the list of the logger each quick_log call made

\* What the logger is given by its surroundings and does not change itself.
environment == <<library_loaded, logger, console>>

\* What the module itself holds, apart from any logger.
module == <<global_logger, quick_logged>>

vars == <<local_queue, queue_lock, now, producer, appended, reader, poller, delivered,
          printed, configured, file, environment, instances, lists, module>>

\* ----------------------------------------------------------------- helpers

Min(a, b) == IF a < b THEN a ELSE b
Max(a, b) == IF a > b THEN a ELSE b

\* The string as it is, where str.upper() belongs.
Verbatim(s) == s

\* str.upper() on the level strings that occur.
Upper(s) ==
    CASE s \in {"trace", "TRACE"} -> "TRACE"
      [] s \in {"debug", "DEBUG"} -> "DEBUG"
      [] s \in {"info", "INFO", "Info"} -> "INFO"
      [] s \in {"warn", "WARN"} -> "WARN"
      [] s \in {"error", "ERROR", "Error"} -> "ERROR"
      [] s \in {"critical", "CRITICAL"} -> "CRITICAL"
      [] OTHER -> s

\* datetime.now().strftime("%Y-%m-%d %H:%M:%S.%f")[:-3]: the clock reading with
\* the last three digits (the microseconds below the millisecond) cut off.
Strftime(t) == t - (t % TicksPerMs)

\* datetime.strptime(ts, "%Y-%m-%d %H:%M:%S.%f"): the three digits read back as
\* milliseconds.
Strptime(ts) == ts

\* s[k:] for a list s and an integer k, as the interpreter computes it.
SliceFrom(s, k) ==
    LET n == Len(s)
        start == IF k < 0 THEN Max(n + k, 0) ELSE Min(k, n)
    IN  SubSeq(s, start + 1, n)

\* A dictionary update that sets the count instead of adding to it.
IncrOverwrite(d, k) == (k :> 1) @@ d

\* d.get(k, 0) + 1 stored back under k, for a dict d modelled as a function.
Incr(d, k) == IF k \in DOMAIN d THEN [d EXCEPT ![k] = @ + 1] ELSE (k :> 1) @@ d

EmptyDict == [k \in {} |-> 0]

RECURSIVE SumValues(_)
SumValues(d) ==
    IF DOMAIN d = {} THEN 0
    ELSE LET k == CHOOSE x \in DOMAIN d : TRUE
         IN  d[k] + SumValues([x \in (DOMAIN d) \ {k} |-> d[x]])

\* A rendering that leaves the component out.
FormatBare(timestamp, component, message) == <<"[", timestamp, "] ", message>>

\* Line 170: f"[{timestamp}] [{component}] {message}", as the pieces the
\* string is made of.
Format(timestamp, component, message) ==
    <<"[", timestamp, "] [", component, "] ", message>>

\* -------------------------------------------------------------------- init

NoEvent ==
    [id |-> <<>>, timestamp |-> 0, level |-> "", component |-> "",
     function |-> "", message |-> "", formatted_message |-> <<>>]

\* No call in progress.
NoCall == <<>>

\* call is the method and the arguments of the ingestion call in progress.
\* native and outcome are history: what became of the native call of the
\* thread's present or last ingestion call ("none", "skipped", "returned",
\* "raised"), and how that call ended ("none" while it runs or before the
\* first, "returned", "raised").
IdleProducer ==
    [pc |-> "idle", event |-> NoEvent, calls |-> 0, native |-> "none", outcome |-> "none",
     call |-> NoCall]

IdleReader ==
    [pc |-> "idle", op |-> None, args |-> <<>>, logs |-> <<>>, idx |-> 0,
     level_counts |-> EmptyDict, component_counts |-> EmptyDict,
     oldest |-> 0, time_range |-> 0, result |-> <<>>]

\* prior and snapshot are history: the events whose ingestion call had been
\* entered when monitoring_loop began, and the queue as the last read found it.
NoPoller ==
    [pc |-> "none", callback |-> None, interval |-> 0,
     last_check_time |-> 0, current_time |-> 0, new_messages |-> <<>>,
     prior |-> {}, snapshot |-> <<>>]

\* The file at the export path: whether it exists, whether open(path, 'w')
\* succeeds on it, and what it holds, as the sequence of pieces written.
\* Unwritable is a path in a directory that does not exist; OldContent is
\* what a file written earlier by something else holds.
Unwritable == [exists |-> FALSE, writable |-> FALSE, content |-> <<>>]
OldContent == <<<<"old">>>>

FileStates ==
    {[exists |-> FALSE, writable |-> w, content |-> <<>>] : w \in BOOLEAN} \cup
    {[exists |-> TRUE, writable |-> w, content |-> OldContent] : w \in BOOLEAN}

\* Names a caller binds loggers to, and the arguments passed to get_logger.
Loggers == {"logger1", "logger2"}
ApplicationNames == {"App1", "App2"}
ProcessNames == {"Proc1"}

\* local_queue above is the list of the one logger the threads share; the
\* loggers made one after another by get_logger are kept apart from it: each
\* holds a reference to its list (self._local_queue), calls counts the
\* ingestion calls made on it and last is the last call made on it, with the
\* number of events it returned, wrote or delivered.
NoInstance ==
    [application_name |-> "", process_name |-> "", local_queue |-> 0,
     calls |-> 0, last |-> <<>>]

\* Line 475, "_global_logger = None": NoLogger is None, the reference to no
\* logger and no list.  calls and name are history: the
\* number of configure_global_logger calls made and the name passed to the
\* latest.
NoLogger == [application_name |-> "", process_name |-> "", local_queue |-> 0]

NoGlobal == [logger |-> NoLogger, calls |-> 0, name |-> ""]

\* turn flips at every configure_enhanced call; at is the number of events
\* appended when the call was made.
NotConfigured ==
    [turn |-> 0, options |-> <<>>, log_level_value |-> 0, native |-> "none",
     message |-> "", outcome |-> "none", at |-> 0]

\* A logger constructed where the native library is not found (line 87),
\* with a console that prints; the path later given to export_logs_to_file
\* cannot be opened.  InitSink, InitExport and InitInstances start from the
\* other surroundings.
Init ==
    /\ local_queue = <<>>
    /\ queue_lock = Free
    /\ now = 0
    /\ producer = [p \in Producers |-> IdleProducer]
    /\ appended = <<>>
    /\ reader = [r \in Readers |-> IdleReader]
    /\ poller = [m \in Pollers |-> NoPoller]
    /\ delivered = [m \in Pollers |-> <<>>]
    /\ library_loaded = FALSE
    /\ logger = None
    /\ console = "works"
    /\ printed = <<>>
    /\ configured = NotConfigured
    /\ file = Unwritable
    /\ instances = [l \in Loggers |-> NoInstance]
    /\ lists = <<>>
    /\ global_logger = NoGlobal
    /\ quick_logged = <<>>

\* ------------------------------------------------------------------- clock

Tick ==
    /\ now < MaxTime
    /\ now' = now + 1
    /\ UNCHANGED <<local_queue, queue_lock, producer, appended, reader, poller, delivered>>
    /\ UNCHANGED <<printed, configured, file, environment, instances, lists, module>>

\* --------------------------------------------------- _log_with_component

RECURSIVE SumCalls(_)
SumCalls(ps) ==
    IF ps = {} THEN 0
    ELSE LET p == CHOOSE x \in ps : TRUE
         IN  producer[p].calls + SumCalls(ps \ {p})

\* Ingestion calls entered so far.
CallsMade == SumCalls(Producers)

\* A test that looks at the library alone and not at the handle.
LibraryLoadedOnly == library_loaded

\* Line 173: "if self._logger and self._library_loaded".
NativeAvailable == logger # None /\ library_loaded

\* Parameters bound with a slip in the defaults: no component name.
BoundUnnamed(args) ==
    [message |-> args.message,
     component |-> IF "component" \in DOMAIN args THEN args.component ELSE "",
     function |-> IF "function" \in DOMAIN args THEN args.function ELSE ""]

\* Lines 141-163: the parameters of an ingestion method as the call binds
\* them, component: str = "Python" and function: str = "" where the caller
\* passes none.
Bound(args) ==
    [message |-> args.message,
     component |-> IF "component" \in DOMAIN args THEN args.component ELSE "Python",
     function |-> IF "function" \in DOMAIN args THEN args.function ELSE ""]

\* Lines 169-170 and 189-197: the dictionary appended for a call, with the
\* message formatted from the timestamp read on entry; id is the identity of
\* the call and of the dictionary.
Event(id, timestamp, level, bound) ==
    [id |-> id, timestamp |-> timestamp, level |-> Upper(level),
     component |-> bound.component, function |-> bound.function,
     message |-> bound.message,
     formatted_message |-> Format(timestamp, bound.component, bound.message)]

\* Lines 141-173: the method passes its name and its parameters to
\* _log_with_component, where the timestamp is read and the message formatted
\* on entry; the native call is next when a native logger exists, the append
\* when none does.
LogCall(p, method, args) ==
    /\ producer[p].pc = "idle"
    /\ CallsMade < TotalCalls
    /\ producer' = [producer EXCEPT ![p] =
           [pc |-> IF NativeAvailable THEN "native" ELSE "append",
            event |-> Event(<<p, producer[p].calls + 1>>, Strftime(now), method,
                            Bound(args)),
            calls |-> producer[p].calls + 1,
            native |-> IF NativeAvailable THEN "none" ELSE "skipped",
            outcome |-> "none",
            call |-> [method |-> method, args |-> args]]]
    /\ UNCHANGED <<local_queue, queue_lock, now, appended, reader, poller, delivered>>
    /\ UNCHANGED <<printed, configured, file, environment, instances, lists, module>>

\* A call with a message and a component, as the tests' threads make it.
LogStart(p, method, component) ==
    LogCall(p, method, [message |-> "m", component |-> component])

\* Lines 174-183: the arguments are encoded and self._cpp_library.log is
\* called.  The call is synchronous: the thread is inside it until the native
\* function comes back.
NativeCall(p) ==
    /\ producer[p].pc = "native"
    /\ producer' = [producer EXCEPT ![p].pc = "in_native"]
    /\ UNCHANGED <<local_queue, queue_lock, now, appended, reader, poller, delivered>>
    /\ UNCHANGED <<printed, configured, file, environment, instances, lists, module>>

NativeOutcomes == {"returned", "raised"}

\* Lines 180-186: the native function returns, or raises and the bare except
\* passes; a native function that never comes back never takes this step.
NativeReturn(p, outcome) ==
    /\ producer[p].pc = "in_native"
    /\ producer' = [producer EXCEPT ![p].pc = "append", ![p].native = outcome]
    /\ UNCHANGED <<local_queue, queue_lock, now, appended, reader, poller, delivered>>
    /\ UNCHANGED <<printed, configured, file, environment, instances, lists, module>>

\* Lines 189-197: the lock is taken and the event appended.
LogAppend(p) ==
    /\ producer[p].pc = "append"
    /\ queue_lock = Free
    /\ queue_lock' = p
    /\ local_queue' = Append(local_queue, producer[p].event)
    /\ appended' = Append(appended, producer[p].event.id)
    /\ producer' = [producer EXCEPT ![p].pc = "evict"]
    /\ UNCHANGED <<now, reader, poller, delivered>>
    /\ UNCHANGED <<printed, configured, file, environment, instances, lists, module>>

\* Variants of the eviction with a slip in them: pop() for pop(0), and >= for >.
EvictNewest(q) == IF Len(q) > Capacity THEN SubSeq(q, 1, Len(q) - 1) ELSE q
EvictAtCapacity(q) == IF Len(q) >= Capacity THEN Tail(q) ELSE q

\* Lines 200-201: if len(self._local_queue) > 1000: self._local_queue.pop(0)
EvictOldest(q) == IF Len(q) > Capacity THEN Tail(q) ELSE q

\* Lines 204-207 and 209-222: print of the event's line; when it raises, the
\* except clause of line 206 prints a line of its own, and what that print
\* raises leaves the method.
ConsoleOutcome == IF console = "closed" THEN "raised" ELSE "returned"

\* Lines 200-207: the eviction, the end of the with block, the console
\* output and the return.
LogEvict(p) ==
    /\ producer[p].pc = "evict"
    /\ queue_lock = p
    /\ local_queue' = EvictOldest(local_queue)
    /\ queue_lock' = Free
    /\ printed' = IF console = "works" THEN Append(printed, producer[p].event.id)
                  ELSE printed
    /\ producer' = [producer EXCEPT ![p].pc = "idle", ![p].event = NoEvent,
                                    ![p].outcome = ConsoleOutcome,
                                    ![p].call = NoCall]
    /\ UNCHANGED <<now, appended, reader, poller, delivered, configured, file, environment, instances, lists, module>>

\* ------------------------------------------------------- configure_enhanced

\* Arguments of configure_enhanced (database_connection, log_file,
\* max_file_size, max_files, min_log_level): the defaults of lines 224-233,
\* the call of test_configuration_parameter_validation, and levels that are
\* in lower case or unknown.
DefaultOptions ==
    [database_connection |-> "", log_file |-> "python_app.log",
     max_file_size |-> 10485760, max_files |-> 5, min_log_level |-> "INFO"]

InvalidOptions ==
    [database_connection |-> "", log_file |-> "",
     max_file_size |-> -1, max_files |-> 0, min_log_level |-> "INFO"]

ConfigureOptions ==
    {DefaultOptions, InvalidOptions,
     [DefaultOptions EXCEPT !.min_log_level = "error"],
     [InvalidOptions EXCEPT !.min_log_level = "bogus"]}

\* Lines 251-255: level_map.get(min_log_level.upper(), 2).
LevelValue(min_log_level) ==
    CASE Upper(min_log_level) = "TRACE" -> 0
      [] Upper(min_log_level) = "DEBUG" -> 1
      [] Upper(min_log_level) = "INFO" -> 2
      [] Upper(min_log_level) = "WARN" -> 3
      [] Upper(min_log_level) = "ERROR" -> 4
      [] Upper(min_log_level) = "CRITICAL" -> 5
      [] OTHER -> 2

\* A configure_enhanced without the try of line 248: what the native call
\* raises leaves the method.
ConfigureUncaught(native) ==
    IF native = "raised" THEN "raised" ELSE ConsoleOutcome

\* Lines 248-275: how the method ends.  What the native call raises is caught
\* at line 274; the print of line 272 or 275 is the last statement either way.
ConfigureOutcome(native) == ConsoleOutcome

\* Lines 248-275, the whole method: the native configuration call when a
\* native logger exists, which returns or raises, then one printed line.
ConfigureEnhanced(options, native) ==
    /\ native = "skipped" <=> ~NativeAvailable
    /\ configured' =
           [turn |-> 1 - configured.turn,
            options |-> options,
            log_level_value |-> LevelValue(options.min_log_level),
            native |-> native,
            message |-> IF native = "raised" THEN "Warning: Failed to configure"
                        ELSE "Enhanced ASFMLogger configured",
            outcome |-> ConfigureOutcome(native),
            at |-> Len(appended)]
    /\ UNCHANGED <<local_queue, queue_lock, now, producer, appended, reader, poller, delivered>>
    /\ UNCHANGED <<printed, file, environment, instances, lists, module>>

\* -------------------------------------------------------- clear_local_logs

\* A clear with a slip in it: only the oldest event goes.
ClearOldest ==
    /\ queue_lock = Free
    /\ local_queue # <<>>
    /\ local_queue' = Tail(local_queue)
    /\ UNCHANGED <<queue_lock, now, producer, appended, reader, poller, delivered>>
    /\ UNCHANGED <<printed, configured, file, environment, instances, lists, module>>

\* Lines 340-341: list.clear() inside the with block, one structural
\* operation on the list while no other thread is inside a with block.
ClearLocalLogs ==
    /\ queue_lock = Free
    /\ local_queue # <<>>
    /\ local_queue' = <<>>
    /\ UNCHANGED <<queue_lock, now, producer, appended, reader, poller, delivered>>
    /\ UNCHANGED <<printed, configured, file, environment, instances, lists, module>>

\* ---------------------------------------------------------- get_local_logs

\* Lines 292-300 on the copy taken at line 290.
FilterLogs(logs, component, level, limit) ==
    LET byComponent ==
            IF component # ""
            THEN SelectSeq(logs, LAMBDA log : log.component = component)
            ELSE logs
        byLevel ==
            IF level # ""
            THEN SelectSeq(byComponent, LAMBDA log : log.level = Upper(level))
            ELSE byComponent
    IN  IF byLevel # <<>> THEN SliceFrom(byLevel, 0 - limit) ELSE <<>>

\* The whole call: the copy is taken under the lock, and everything after it
\* works on that copy alone.
GetLocalLogs(r, component, level, limit) ==
    /\ reader[r].pc = "idle"
    /\ queue_lock = Free
    /\ reader' = [reader EXCEPT ![r] =
           [IdleReader EXCEPT
              !.pc = "return", !.op = "get_local_logs",
              !.args = <<component, level, limit>>,
              !.logs = local_queue,
              !.result = FilterLogs(local_queue, component, level, limit)]]
    /\ UNCHANGED <<local_queue, queue_lock, now, producer, appended, poller, delivered>>
    /\ UNCHANGED <<printed, configured, file, environment, instances, lists, module>>

\* get_local_logs(): no argument passed, every parameter at its default
\* (component None, level None, limit 100; line 277).  args holds the
\* parameters as bound, and a fourth element that marks the call.
GetLocalLogsDefault(r) ==
    /\ reader[r].pc = "idle"
    /\ queue_lock = Free
    /\ reader' = [reader EXCEPT ![r] =
           [IdleReader EXCEPT
              !.pc = "return", !.op = "get_local_logs",
              !.args = <<"", "", DefaultLimit, "defaults">>,
              !.logs = local_queue,
              !.result = FilterLogs(local_queue, "", "", DefaultLimit)]]
    /\ UNCHANGED <<local_queue, queue_lock, now, producer, appended, poller, delivered>>
    /\ UNCHANGED <<printed, configured, file, environment, instances, lists, module>>

\* Line 290, "logs = self._local_queue.copy()", copies the list and not the
\* dictionaries in it, and lines 293-300 select and slice that list: the
\* list the caller gets is its own, the event records in it are the very
\* objects the queue holds.  An event's id stands for the object's identity.
\* In the state with pc = "return" the caller has the result in hand.
Rewritten(logs, id, level) ==
    [k \in DOMAIN logs |->
        IF logs[k].id = id THEN [logs[k] EXCEPT !.level = level] ELSE logs[k]]

\* The caller assigns to the "level" entry of the i-th record of the result:
\* result[i]["level"] = level.  Every list that holds the object shows it.
MutateReturned(r, i, level) ==
    /\ reader[r].pc = "return"
    /\ reader[r].op = "get_local_logs"
    /\ i \in 1..Len(reader[r].result)
    /\ reader[r].result[i].level # level
    /\ LET id == reader[r].result[i].id
       IN  /\ local_queue' = Rewritten(local_queue, id, level)
           /\ reader' = [q \in Readers |->
                  IF reader[q].op = "get_local_logs"
                  THEN [reader[q] EXCEPT !.logs = Rewritten(@, id, level),
                                         !.result = Rewritten(@, id, level)]
                  ELSE reader[q]]
           /\ poller' = [m \in Pollers |->
                  [poller[m] EXCEPT !.snapshot = Rewritten(@, id, level),
                                    !.new_messages = Rewritten(@, id, level)]]
           /\ delivered' = [m \in Pollers |->
                  [k \in DOMAIN delivered[m] |-> Rewritten(delivered[m][k], id, level)]]
    /\ UNCHANGED <<queue_lock, now, producer, appended>>
    /\ UNCHANGED <<printed, configured, file, environment, instances, lists, module>>

\* The caller removes the first element of the result: del result[0].
TruncateReturned(r) ==
    /\ reader[r].pc = "return"
    /\ reader[r].op = "get_local_logs"
    /\ reader[r].result # <<>>
    /\ reader' = [reader EXCEPT ![r].result = Tail(@)]
    /\ UNCHANGED <<local_queue, queue_lock, now, producer, appended, poller, delivered>>
    /\ UNCHANGED <<printed, configured, file, environment, instances, lists, module>>

\* ------------------------------------------------------ export_logs_to_file

\* Values passed for format.
ExportFormats == {"json", "JSON", "csv", "txt", "xml"}

\* str.lower() on the format strings that occur.
Lower(s) ==
    CASE s \in {"json", "JSON"} -> "json"
      [] s \in {"csv", "CSV"} -> "csv"
      [] s \in {"txt", "TXT"} -> "txt"
      [] OTHER -> s

\* The keys of an event, in the order line 190-197 inserts them; id, the
\* identity of the dictionary, is carried along with them.
EventKeys ==
    <<"timestamp", "level", "component", "function", "message", "formatted_message", "id">>

\* A JSON string literal for the string v, and the string a literal stands
\* for.
Quote(v) == <<"string", v>>
Unquote(literal) == literal[2]

\* json.dump(logs, f, indent=2), as the pieces written: the opening bracket,
\* one object per event with its members in key order and every value a
\* string literal, the closing bracket.
JsonObject(log) == <<"object", [i \in 1..Len(EventKeys) |-> <<EventKeys[i], Quote(log[EventKeys[i]])>>]>>

\* A dump that writes the newest event first.
JsonDumpReversed(logs) ==
    <<<<"[">>>> \o [i \in 1..Len(logs) |-> JsonObject(logs[Len(logs) + 1 - i])] \o <<<<"]">>>>

JsonDump(logs) == <<<<"[">>>> \o [i \in 1..Len(logs) |-> JsonObject(logs[i])] \o <<<<"]">>>>

\* json.load of a complete dump: the list of dicts, each with the members of
\* its object.
JsonLoad(content) ==
    [i \in 1..(Len(content) - 2) |->
        LET members == content[i + 1][2]
        IN  [k \in {members[j][1] : j \in 1..Len(members)} |->
                Unquote((CHOOSE m \in {members[j] : j \in 1..Len(members)} : m[1] = k)[2])]]

\* csv.DictWriter(f, fieldnames=logs[0].keys()): writeheader, then writerows.
CsvDump(logs) ==
    <<<<"header", EventKeys>>>> \o
    [i \in 1..Len(logs) |-> <<"row", [j \in 1..Len(EventKeys) |-> logs[i][EventKeys[j]]]>>]

\* One line per event: "{timestamp} [{level}] [{component}] {message}\n".
TxtDump(logs) ==
    [i \in 1..Len(logs) |->
        <<"line", <<logs[i].timestamp, logs[i].level, logs[i].component, logs[i].id>>>>]

\* Lines 355-370: what the branch taken for the format writes.
Serialize(format, logs) ==
    CASE format = "json" -> JsonDump(logs)
      [] format = "csv" -> CsvDump(logs)
      [] format = "txt" -> TxtDump(logs)
      [] OTHER -> <<>>

\* Lines 355-368: whether the branch taken opens the file.
Opens(format, logs) ==
    \/ format \in {"json", "txt"}
    \/ format = "csv" /\ logs # <<>>

\* An export that empties the queue as it copies it.
ExportDrain(r, format) ==
    /\ reader[r].pc = "idle"
    /\ queue_lock = Free
    /\ reader' = [reader EXCEPT ![r] =
           [IdleReader EXCEPT
              !.pc = "export", !.op = "export_logs_to_file",
              !.args = <<format>>, !.logs = local_queue]]
    /\ local_queue' = <<>>
    /\ UNCHANGED <<queue_lock, now, producer, appended, poller, delivered>>
    /\ UNCHANGED <<printed, configured, file, environment, instances, lists, module>>

\* Lines 351-352: the copy taken under the lock.
ExportCopy(r, format) ==
    /\ reader[r].pc = "idle"
    /\ queue_lock = Free
    /\ reader' = [reader EXCEPT ![r] =
           [IdleReader EXCEPT
              !.pc = "export", !.op = "export_logs_to_file",
              !.args = <<format>>, !.logs = local_queue]]
    /\ UNCHANGED <<local_queue, queue_lock, now, producer, appended, poller, delivered>>
    /\ UNCHANGED <<printed, configured, file, environment, instances, lists, module>>

\* Lines 354-375, on the copy.  No branch is taken for a format that is not
\* json, csv or txt, and the csv branch does nothing for an empty copy.  A
\* branch that opens the file raises when the file cannot be opened;
\* otherwise open(path, 'w') makes the file empty, and the pieces are written
\* until the device refuses one (accepted of them get through), which
\* raises.  Whatever was raised, line 375 prints it; when nothing was, line
\* 372 prints the count.  The method returns None either way; fault is
\* history, what went wrong inside.
ExportWrite(r) ==
    /\ reader[r].pc = "export"
    /\ LET format == Lower(reader[r].args[1])
           logs == reader[r].logs
           pieces == Serialize(format, logs)
           Finish(fault) ==
               reader' = [reader EXCEPT ![r] =
                   [@ EXCEPT !.pc = IF console = "closed" THEN "raised" ELSE "return",
                             !.result =
                                 [value |-> None,
                                  message |-> IF fault \in {"open", "write"}
                                              THEN "Error exporting logs"
                                              ELSE "Exported",
                                  count |-> Len(logs),
                                  fault |-> fault]]]
       IN  IF ~Opens(format, logs)
           THEN /\ file' = file
                /\ Finish(IF format \in {"json", "csv", "txt"} THEN "none" ELSE "format")
           ELSE IF ~file.writable
           THEN /\ file' = file
                /\ Finish("open")
           ELSE \E accepted \in 0..Len(pieces) :
                   /\ file' = [file EXCEPT !.exists = TRUE,
                                           !.content = SubSeq(pieces, 1, accepted)]
                   /\ Finish(IF accepted < Len(pieces) THEN "write" ELSE "none")
    /\ UNCHANGED <<local_queue, queue_lock, now, producer, appended, poller, delivered>>
    /\ UNCHANGED <<printed, configured, environment, instances, lists, module>>

\* ------------------------------------------------------ get_log_statistics

\* One second, in the unit of the clock.
Second == 1000 * TicksPerMs

\* The quotient count / (span / Second) of line 335, a float in the code,
\* kept as the reduced pair of numerator and denominator; span is positive.
RECURSIVE Gcd(_, _)
Gcd(a, b) == IF b = 0 THEN a ELSE Gcd(b, a % b)

Rate(count, span) ==
    LET g == Gcd(count * Second, span)
    IN  IF g = 0 THEN <<0, 1>> ELSE <<(count * Second) \div g, span \div g>>

\* The list that the name logs is bound to in reader r's running call:
\* get_log_statistics binds it to the queue object itself (line 305,
\* "logs = self._local_queue"), so every read of logs there is a read of the
\* queue as it is at that moment; get_local_logs and export_logs_to_file
\* bind it to the copy they took (lines 290 and 352).
ReaderLogs(r) ==
    IF reader[r].op = "get_log_statistics" THEN local_queue ELSE reader[r].logs

\* Lines 304-305: the with block is entered and left.
StatsBegin(r) ==
    /\ reader[r].pc = "idle"
    /\ queue_lock = Free
    /\ reader' = [reader EXCEPT ![r] =
           [IdleReader EXCEPT !.pc = "empty", !.op = "get_log_statistics"]]
    /\ UNCHANGED <<local_queue, queue_lock, now, producer, appended, poller, delivered>>
    /\ UNCHANGED <<printed, configured, file, environment, instances, lists, module>>

\* Lines 307-308.
StatsEmpty(r) ==
    /\ reader[r].pc = "empty"
    /\ reader' = [reader EXCEPT ![r] =
           IF ReaderLogs(r) = <<>>
           THEN [@ EXCEPT !.pc = "return", !.result = [total_messages |-> 0]]
           ELSE [@ EXCEPT !.pc = "levels", !.idx = 0]]
    /\ UNCHANGED <<local_queue, queue_lock, now, producer, appended, poller, delivered>>
    /\ UNCHANGED <<printed, configured, file, environment, instances, lists, module>>

\* Lines 312-314: one step of the list iterator, which compares its index
\* with the length the list has now.
StatsLevel(r) ==
    /\ reader[r].pc = "levels"
    /\ LET logs == ReaderLogs(r)
           i == reader[r].idx
       IN  reader' = [reader EXCEPT ![r] =
               IF i < Len(logs)
               THEN [@ EXCEPT !.idx = i + 1,
                              !.level_counts = Incr(@, logs[i + 1].level)]
               ELSE [@ EXCEPT !.pc = "components", !.idx = 0]]
    /\ UNCHANGED <<local_queue, queue_lock, now, producer, appended, poller, delivered>>
    /\ UNCHANGED <<printed, configured, file, environment, instances, lists, module>>

\* Lines 318-320.
StatsComponent(r) ==
    /\ reader[r].pc = "components"
    /\ LET logs == ReaderLogs(r)
           i == reader[r].idx
       IN  reader' = [reader EXCEPT ![r] =
               IF i < Len(logs)
               THEN [@ EXCEPT !.idx = i + 1,
                              !.component_counts = Incr(@, logs[i + 1].component)]
               ELSE [@ EXCEPT !.pc = "range", !.idx = 0]]
    /\ UNCHANGED <<local_queue, queue_lock, now, producer, appended, poller, delivered>>
    /\ UNCHANGED <<printed, configured, file, environment, instances, lists, module>>

\* Lines 323 and 327-328.
StatsRange(r) ==
    /\ reader[r].pc = "range"
    /\ reader' = [reader EXCEPT ![r] =
           IF Len(ReaderLogs(r)) >= 2
           THEN [@ EXCEPT !.pc = "oldest"]
           ELSE [@ EXCEPT !.pc = "build", !.time_range = 0]]
    /\ UNCHANGED <<local_queue, queue_lock, now, producer, appended, poller, delivered>>
    /\ UNCHANGED <<printed, configured, file, environment, instances, lists, module>>

\* Line 324: logs[0] raises IndexError on an empty list.
StatsOldest(r) ==
    /\ reader[r].pc = "oldest"
    /\ LET logs == ReaderLogs(r)
       IN  reader' = [reader EXCEPT ![r] =
               IF logs = <<>>
               THEN [@ EXCEPT !.pc = "raised"]
               ELSE [@ EXCEPT !.pc = "newest", !.oldest = Strptime(logs[1].timestamp)]]
    /\ UNCHANGED <<local_queue, queue_lock, now, producer, appended, poller, delivered>>
    /\ UNCHANGED <<printed, configured, file, environment, instances, lists, module>>

\* Lines 325-326: logs[-1] raises IndexError on an empty list.
StatsNewest(r) ==
    /\ reader[r].pc = "newest"
    /\ LET logs == ReaderLogs(r)
       IN  reader' = [reader EXCEPT ![r] =
               IF logs = <<>>
               THEN [@ EXCEPT !.pc = "raised"]
               ELSE [@ EXCEPT !.pc = "build",
                              !.time_range = Strptime(logs[Len(logs)].timestamp)
                                             - reader[r].oldest]]
    /\ UNCHANGED <<local_queue, queue_lock, now, producer, appended, poller, delivered>>
    /\ UNCHANGED <<printed, configured, file, environment, instances, lists, module>>

\* Lines 330-336: the returned dictionary; len(logs) is read here.
StatsBuild(r) ==
    /\ reader[r].pc = "build"
    /\ reader' = [reader EXCEPT ![r] =
           [@ EXCEPT !.pc = "return",
                     !.result =
                         [total_messages |-> Len(ReaderLogs(r)),
                          level_distribution |-> reader[r].level_counts,
                          component_distribution |-> reader[r].component_counts,
                          time_range_seconds |-> reader[r].time_range,
                          messages_per_second |->
                              Rate(Len(ReaderLogs(r)), Max(reader[r].time_range, Second))]]]
    /\ UNCHANGED <<local_queue, queue_lock, now, producer, appended, poller, delivered>>
    /\ UNCHANGED <<printed, configured, file, environment, instances, lists, module>>

\* The caller takes the result; the call's locals are gone.
ReaderReturn(r) ==
    /\ reader[r].pc = "return"
    /\ reader' = [reader EXCEPT ![r] = IdleReader]
    /\ UNCHANGED <<local_queue, queue_lock, now, producer, appended, poller, delivered>>
    /\ UNCHANGED <<printed, configured, file, environment, instances, lists, module>>

\* -------------------------------------------- enable_real_time_monitoring

\* Lines 407-408: every call creates a thread and starts it.
EnableRealTimeMonitoring(m, callback, interval) ==
    /\ poller[m].pc = "none"
    /\ m = "m2" => poller["m1"].pc # "none"
    /\ poller' = [poller EXCEPT ![m] =
           [NoPoller EXCEPT !.pc = "start", !.callback = callback, !.interval = interval]]
    /\ UNCHANGED <<local_queue, queue_lock, now, producer, appended, reader, delivered>>
    /\ UNCHANGED <<printed, configured, file, environment, instances, lists, module>>

\* Ids of the events whose ingestion call has been entered.
EnteredIds == {<<p, k>> : p \in Producers, k \in 1..TotalCalls} \cap
              UNION {{<<p, k>> : k \in 1..producer[p].calls} : p \in Producers}

\* datetime.fromtimestamp(t): the float of time.time() as a datetime.
FromTimestamp(t) == t

\* A loop that starts from time 0 instead of the clock.
MonitorInitAtZero(m) ==
    /\ poller[m].pc = "start"
    /\ poller' = [poller EXCEPT ![m].pc = "wake", ![m].last_check_time = 0,
                                ![m].prior = EnteredIds]
    /\ UNCHANGED <<local_queue, queue_lock, now, producer, appended, reader, delivered>>
    /\ UNCHANGED <<printed, configured, file, environment, instances, lists, module>>

\* Line 386: last_check_time = time.time() as the thread begins.
MonitorInit(m) ==
    /\ poller[m].pc = "start"
    /\ poller' = [poller EXCEPT ![m].pc = "wake", ![m].last_check_time = now,
                                ![m].prior = EnteredIds]
    /\ UNCHANGED <<local_queue, queue_lock, now, producer, appended, reader, delivered>>
    /\ UNCHANGED <<printed, configured, file, environment, instances, lists, module>>

\* Lines 389-390 and 401: the clock is read; when less than the interval has
\* passed the thread sleeps and comes back here, where current_time is
\* assigned again before anything reads it.
MonitorWake(m) ==
    /\ poller[m].pc = "wake"
    /\ poller' = IF now - poller[m].last_check_time >= poller[m].interval
                 THEN [poller EXCEPT ![m].current_time = now, ![m].pc = "read"]
                 ELSE poller
    /\ UNCHANGED <<local_queue, queue_lock, now, producer, appended, reader, delivered>>
    /\ UNCHANGED <<printed, configured, file, environment, instances, lists, module>>

\* The comprehension with >= in place of >.
NewMessagesInclusive(queue, last_check_time) ==
    SelectSeq(queue, LAMBDA log : Strptime(log.timestamp) >= FromTimestamp(last_check_time))

\* Lines 393-394: the events of the queue whose timestamp is later than
\* last_check_time.
NewMessages(queue, last_check_time) ==
    SelectSeq(queue, LAMBDA log : Strptime(log.timestamp) > FromTimestamp(last_check_time))

\* Line 392: the with block is entered.
MonitorEnter(m) ==
    /\ poller[m].pc = "read"
    /\ queue_lock = Free
    /\ queue_lock' = m
    /\ poller' = [poller EXCEPT ![m].pc = "filter"]
    /\ UNCHANGED <<local_queue, now, producer, appended, reader, delivered>>
    /\ UNCHANGED <<printed, configured, file, environment, instances, lists, module>>

\* The comprehension in a block that is never left: acquire() without the
\* release() that "with" makes.
MonitorReadKeepsLock(m) ==
    /\ poller[m].pc = "filter"
    /\ queue_lock = m
    /\ poller' = [poller EXCEPT ![m].pc = "deliver",
                                ![m].new_messages = NewMessages(local_queue, poller[m].last_check_time),
                                ![m].snapshot = local_queue]
    /\ UNCHANGED <<local_queue, queue_lock, now, producer, appended, reader, delivered>>
    /\ UNCHANGED <<printed, configured, file, environment, instances, lists, module>>

\* Lines 393-394: the whole comprehension, which parses the timestamp of
\* every event of the queue, runs inside the with block, and the block is
\* left when it is done.
MonitorRead(m) ==
    /\ poller[m].pc = "filter"
    /\ queue_lock = m
    /\ queue_lock' = Free
    /\ poller' = [poller EXCEPT ![m].pc = "deliver",
                                ![m].new_messages = NewMessages(local_queue, poller[m].last_check_time),
                                ![m].snapshot = local_queue]
    /\ UNCHANGED <<local_queue, now, producer, appended, reader, delivered>>
    /\ UNCHANGED <<printed, configured, file, environment, instances, lists, module>>

\* A loop whose except clause goes on to the next round instead of leaving.
MonitorDeliverSurvives(m) ==
    /\ poller[m].pc = "deliver"
    /\ LET called == poller[m].new_messages # <<>> /\ poller[m].callback # None
       IN  /\ delivered' = IF called
                           THEN [delivered EXCEPT ![m] = Append(@, poller[m].new_messages)]
                           ELSE delivered
           /\ poller' = [poller EXCEPT ![m] =
                  IF called /\ poller[m].callback = "raises"
                  THEN [@ EXCEPT !.pc = "wake", !.new_messages = <<>>, !.snapshot = <<>>]
                  ELSE [@ EXCEPT !.pc = "wake", !.new_messages = <<>>, !.snapshot = <<>>,
                                 !.last_check_time = poller[m].current_time]]
    /\ UNCHANGED <<local_queue, queue_lock, now, producer, appended, reader>>
    /\ UNCHANGED <<printed, configured, file, environment, instances, lists, module>>

\* A delivery that filters the queue again as it calls the callback.
MonitorDeliverRereads(m) ==
    /\ poller[m].pc = "deliver"
    /\ LET batch == NewMessages(local_queue, poller[m].last_check_time)
           called == batch # <<>> /\ poller[m].callback # None
       IN  /\ delivered' = IF called
                           THEN [delivered EXCEPT ![m] = Append(@, batch)]
                           ELSE delivered
           /\ poller' = [poller EXCEPT ![m] =
                  IF called /\ poller[m].callback = "raises"
                  THEN [@ EXCEPT !.pc = "dead", !.new_messages = <<>>, !.snapshot = <<>>]
                  ELSE [@ EXCEPT !.pc = "wake", !.new_messages = <<>>, !.snapshot = <<>>,
                                 !.last_check_time = poller[m].current_time]]
    /\ UNCHANGED <<local_queue, queue_lock, now, producer, appended, reader>>
    /\ UNCHANGED <<printed, configured, file, environment, instances, lists, module>>

\* Lines 396-405: the callback is called with a non-empty batch; when it
\* raises, the except clause prints and leaves the loop, which ends the
\* thread; otherwise last_check_time moves to the clock reading of line 389.
MonitorDeliver(m) ==
    /\ poller[m].pc = "deliver"
    /\ LET called == poller[m].new_messages # <<>> /\ poller[m].callback # None
       IN  /\ delivered' = IF called
                           THEN [delivered EXCEPT ![m] = Append(@, poller[m].new_messages)]
                           ELSE delivered
           /\ poller' = [poller EXCEPT ![m] =
                  IF called /\ poller[m].callback = "raises"
                  THEN [@ EXCEPT !.pc = "dead", !.new_messages = <<>>, !.snapshot = <<>>]
                  ELSE [@ EXCEPT !.pc = "wake", !.new_messages = <<>>, !.snapshot = <<>>,
                                 !.last_check_time = poller[m].current_time]]
    /\ UNCHANGED <<local_queue, queue_lock, now, producer, appended, reader>>
    /\ UNCHANGED <<printed, configured, file, environment, instances, lists, module>>

\* A callback that calls methods of the logger it monitors, "reenters", runs
\* in the monitoring thread at line 397.  Line 397: the call of the callback
\* with a non-empty batch.
Reenters == "reenters"

CallbackEnter(m) ==
    /\ poller[m].pc = "deliver"
    /\ poller[m].callback = Reenters
    /\ poller[m].new_messages # <<>>
    /\ delivered' = [delivered EXCEPT ![m] = Append(@, poller[m].new_messages)]
    /\ poller' = [poller EXCEPT ![m].pc = "in_callback"]
    /\ UNCHANGED <<local_queue, queue_lock, now, producer, appended, reader>>
    /\ UNCHANGED <<printed, configured, file, environment, instances, lists, module>>

\* The callback calls logger.info(message): lines 169-197 in the monitoring
\* thread, up to and including the append inside the with block of line 188.
CallbackLogAppend(m) ==
    /\ poller[m].pc = "in_callback"
    /\ Len(appended) < TotalCalls
    /\ queue_lock = Free
    /\ queue_lock' = m
    /\ LET id == <<m, Len(delivered[m])>>
       IN  /\ local_queue' = Append(local_queue,
                  Event(id, Strftime(now), "info", Bound([message |-> "m"])))
           /\ appended' = Append(appended, id)
    /\ poller' = [poller EXCEPT ![m].pc = "callback_evict"]
    /\ UNCHANGED <<now, producer, reader, delivered>>
    /\ UNCHANGED <<printed, configured, file, environment, instances, lists, module>>

\* Lines 200-207 of that call: the eviction, the end of the with block, the
\* console output.
CallbackLogEvict(m) ==
    /\ poller[m].pc = "callback_evict"
    /\ queue_lock = m
    /\ local_queue' = EvictOldest(local_queue)
    /\ queue_lock' = Free
    /\ printed' = IF console = "works" THEN Append(printed, <<m, Len(delivered[m])>>)
                  ELSE printed
    /\ poller' = [poller EXCEPT ![m].pc = "callback_return"]
    /\ UNCHANGED <<now, producer, appended, reader, delivered, configured, file, environment, instances, lists, module>>

\* The callback calls logger.clear_local_logs(): lines 340-341.
CallbackClear(m) ==
    /\ poller[m].pc = "in_callback"
    /\ queue_lock = Free
    /\ local_queue' = <<>>
    /\ poller' = [poller EXCEPT ![m].pc = "callback_return"]
    /\ UNCHANGED <<queue_lock, now, producer, appended, reader, delivered>>
    /\ UNCHANGED <<printed, configured, file, environment, instances, lists, module>>

\* The callback calls logger.get_local_logs() or logger.get_log_statistics()
\* and drops the result: the with blocks of lines 289-290 and 304-305.
CallbackQuery(m) ==
    /\ poller[m].pc = "in_callback"
    /\ queue_lock = Free
    /\ poller' = [poller EXCEPT ![m].pc = "callback_return"]
    /\ UNCHANGED <<local_queue, queue_lock, now, producer, appended, reader, delivered>>
    /\ UNCHANGED <<printed, configured, file, environment, instances, lists, module>>

\* Lines 397-401: the callback returns, last_check_time moves on and the
\* thread sleeps.
CallbackReturn(m) ==
    /\ poller[m].pc = "callback_return"
    /\ poller' = [poller EXCEPT ![m].pc = "wake", ![m].new_messages = <<>>,
                                ![m].snapshot = <<>>,
                                ![m].last_check_time = poller[m].current_time]
    /\ UNCHANGED <<local_queue, queue_lock, now, producer, appended, reader, delivered>>
    /\ UNCHANGED <<printed, configured, file, environment, instances, lists, module>>

\* --------------------------------------------------------- create_log_filter

\* A filter that lets nothing through when an importance is asked for.
FilterByImportance(component, level, min_importance, messages) ==
    IF min_importance # "" THEN <<>>
    ELSE LET byComponent ==
                 IF component # ""
                 THEN SelectSeq(messages, LAMBDA msg : msg.component = component)
                 ELSE messages
         IN  IF level # ""
             THEN SelectSeq(byComponent, LAMBDA msg : msg.level = Upper(level))
             ELSE byComponent

\* Lines 422-429: filter_function(messages) of the closure made by
\* create_log_filter(component, level, min_importance); min_importance is
\* bound and not read.
FilterFunction(component, level, min_importance, messages) ==
    LET byComponent ==
            IF component # ""
            THEN SelectSeq(messages, LAMBDA msg : msg.component = component)
            ELSE messages
    IN  IF level # ""
        THEN SelectSeq(byComponent, LAMBDA msg : msg.level = Upper(level))
        ELSE byComponent

\* Lines 411-431: the caller makes a filter and applies it to a list of its
\* own; logs is that list as the call leaves it, which the comprehensions of
\* lines 425 and 427 read and do not change.
ApplyLogFilter(r, component, level, min_importance, messages) ==
    /\ reader[r].pc = "idle"
    /\ reader' = [reader EXCEPT ![r] =
           [IdleReader EXCEPT !.pc = "return", !.op = "filter_function",
                              !.args = <<component, level, min_importance, messages>>,
                              !.logs = messages,
                              !.result = FilterFunction(component, level,
                                                        min_importance, messages)]]
    /\ UNCHANGED <<local_queue, queue_lock, now, producer, appended, poller, delivered>>
    /\ UNCHANGED <<printed, configured, file, environment, instances, lists, module>>

\* -------------------------------------------------------------- get_logger

\* A list made when the first logger is constructed, that every later logger
\* refers to as well.
ClassList == IF lists = <<>> THEN Len(lists) + 1 ELSE Len(lists)

\* Line 59, "self._local_queue = []": a list that did not exist before.
FreshList == Len(lists) + 1

\* Lines 435-437 and 47-66: every call constructs a logger, whatever the
\* names, and the constructor binds its fields.
GetLogger(l, application_name, process_name) ==
    /\ instances[l] = NoInstance
    /\ LET ref == FreshList
       IN  /\ lists' = IF ref > Len(lists) THEN Append(lists, <<>>) ELSE lists
           /\ instances' = [instances EXCEPT ![l] =
                  [application_name |-> application_name, process_name |-> process_name,
                   local_queue |-> ref, calls |-> 0, last |-> <<"get_logger">>]]
    /\ UNCHANGED <<local_queue, queue_lock, now, producer, appended, reader, poller, delivered>>
    /\ UNCHANGED <<printed, configured, file, environment, module>>

\* The logger objects made so far are at most MaxLoggers.
CanConstruct == Len(lists) < MaxLoggers

\* A configure_global_logger that keeps a global logger once it has one.
ConfigureGlobalOnce(application_name) ==
    /\ CanConstruct
    /\ LET ref == FreshList
       IN  /\ lists' = Append(lists, <<>>)
           /\ global_logger' =
                  [logger |-> IF global_logger.logger = NoLogger
                              THEN [application_name |-> application_name,
                                    process_name |-> "", local_queue |-> ref]
                              ELSE global_logger.logger,
                   calls |-> global_logger.calls + 1,
                   name |-> application_name]
    /\ UNCHANGED <<local_queue, queue_lock, now, producer, appended, reader, poller, delivered>>
    /\ UNCHANGED <<printed, configured, file, environment, instances, quick_logged>>

\* Lines 457-471: a logger is constructed under the name given (process_name
\* takes its default) and bound to _global_logger, then configure_enhanced is
\* called on it, which leaves its buffer alone.
ConfigureGlobalLogger(application_name) ==
    /\ CanConstruct
    /\ LET ref == FreshList
       IN  /\ lists' = Append(lists, <<>>)
           /\ global_logger' =
                  [logger |-> [application_name |-> application_name,
                               process_name |-> "", local_queue |-> ref],
                   calls |-> global_logger.calls + 1,
                   name |-> application_name]
    /\ UNCHANGED <<local_queue, queue_lock, now, producer, appended, reader, poller, delivered>>
    /\ UNCHANGED <<printed, configured, file, environment, instances, quick_logged>>

\* Lines 478-480: the caller binds the name l to what get_global_logger
\* returns, the object _global_logger refers to; when that is None there is no
\* logger to bind.
GetGlobalLogger(l) ==
    /\ instances[l] = NoInstance
    /\ global_logger.logger # NoLogger
    /\ instances' = [instances EXCEPT ![l] =
           [application_name |-> global_logger.logger.application_name,
            process_name |-> global_logger.logger.process_name,
            local_queue |-> global_logger.logger.local_queue,
            calls |-> 0, last |-> <<"get_global_logger">>]]
    /\ UNCHANGED <<local_queue, queue_lock, now, producer, appended, reader, poller, delivered>>
    /\ UNCHANGED <<printed, configured, file, environment, lists, module>>

\* Lines 440-454: get_logger() makes a logger, and the branch for
\* level.upper() calls the method of that name on it with the message and the
\* component; no branch is taken for a level that is none of the six, and the
\* logger is dropped at the return.
QuickLog(level, component) ==
    /\ CanConstruct
    /\ LET ref == FreshList
           id == <<"quick_log", Len(quick_logged) + 1>>
           queue == IF Upper(level) \in {Upper(method) : method \in LevelMethods}
                    THEN <<Event(id, Strftime(now), level,
                                 Bound([message |-> "m", component |-> component]))>>
                    ELSE <<>>
       IN  /\ lists' = Append(lists, queue)
           /\ quick_logged' = Append(quick_logged, ref)
    /\ UNCHANGED <<local_queue, queue_lock, now, producer, appended, reader, poller, delivered>>
    /\ UNCHANGED <<printed, configured, file, environment, instances, global_logger>>

\* The list logger l refers to.
Buffer(l) == lists[instances[l].local_queue]

RECURSIVE SumInstanceCalls(_)
SumInstanceCalls(ls) ==
    IF ls = {} THEN 0
    ELSE LET l == CHOOSE x \in ls : TRUE
         IN  instances[l].calls + SumInstanceCalls(ls \ {l})

\* What a call on logger l leaves behind when it touches nothing but the
\* logger's own list.
OnInstance(l, queue, calls, last) ==
    /\ lists' = [lists EXCEPT ![instances[l].local_queue] = queue]
    /\ instances' = [instances EXCEPT ![l].calls = calls, ![l].last = last]
    /\ UNCHANGED <<local_queue, queue_lock, now, producer, appended, reader, poller, delivered>>
    /\ UNCHANGED <<printed, configured, environment, module>>

\* Lines 141-207, a whole ingestion call from a single thread.
InstanceLog(l, method, component) ==
    /\ instances[l] # NoInstance
    /\ SumInstanceCalls(Loggers) < TotalCalls
    /\ LET event == Event(<<l, instances[l].calls + 1>>, Strftime(now), method,
                          Bound([message |-> "m", component |-> component]))
       IN  OnInstance(l, EvictOldest(Append(Buffer(l), event)),
                      instances[l].calls + 1, <<method>>)
    /\ UNCHANGED file

\* Lines 338-341.
InstanceClear(l) ==
    /\ instances[l] # NoInstance
    /\ OnInstance(l, <<>>, instances[l].calls, <<"clear_local_logs">>)
    /\ UNCHANGED file

\* Lines 277-300.
InstanceGetLocalLogs(l, limit) ==
    /\ instances[l] # NoInstance
    /\ OnInstance(l, Buffer(l), instances[l].calls,
                  <<"get_local_logs", Len(FilterLogs(Buffer(l), "", "", limit))>>)
    /\ UNCHANGED file

\* Lines 302-336, from a single thread: the count returned.
InstanceStatistics(l) ==
    /\ instances[l] # NoInstance
    /\ OnInstance(l, Buffer(l), instances[l].calls,
                  <<"get_log_statistics", Len(Buffer(l))>>)
    /\ UNCHANGED file

\* Lines 343-375 with the default format, no write failing part-way.
InstanceExport(l) ==
    /\ instances[l] # NoInstance
    /\ OnInstance(l, Buffer(l), instances[l].calls,
                  <<"export_logs_to_file", Len(Buffer(l))>>)
    /\ file' = IF file.writable
               THEN [file EXCEPT !.exists = TRUE, !.content = JsonDump(Buffer(l))]
               ELSE file

\* Lines 377-409: one round of the monitoring thread of logger l, started
\* at last_check_time.
InstanceMonitor(l, last_check_time) ==
    /\ instances[l] # NoInstance
    /\ OnInstance(l, Buffer(l), instances[l].calls,
                  <<"enable_real_time_monitoring",
                    Len(NewMessages(Buffer(l), last_check_time))>>)
    /\ UNCHANGED file

\* ------------------------------------------------------------ specifications

\* The component each producer thread passes (the tests pass one per thread).
ThreadComponent(p) == IF p = "p1" THEN "A" ELSE "B"

ProducerNext(p) ==
    \/ \E method \in Methods : LogStart(p, method, ThreadComponent(p))
    \/ LogAppend(p)
    \/ LogEvict(p)

StatsNext(r) ==
    \/ StatsBegin(r)
    \/ StatsEmpty(r)
    \/ StatsLevel(r)
    \/ StatsComponent(r)
    \/ StatsRange(r)
    \/ StatsOldest(r)
    \/ StatsNewest(r)
    \/ StatsBuild(r)

ReaderNext(r) ==
    \/ \E limit \in Limits : GetLocalLogs(r, "", "", limit)
    \/ ExportCopy(r, "json")
    \/ ExportWrite(r)
    \/ StatsNext(r)
    \/ ReaderReturn(r)

MonitorNext(m) ==
    \/ \E callback \in Callbacks, interval \in Intervals :
           EnableRealTimeMonitoring(m, callback, interval)
    \/ MonitorInit(m)
    \/ MonitorWake(m)
    \/ MonitorEnter(m)
    \/ MonitorRead(m)
    \/ MonitorDeliver(m)

\* Producer threads, reader threads and a thread calling clear_local_logs on
\* one logger, with the clock advancing.
Next ==
    \/ \E p \in Producers : ProducerNext(p)
    \/ \E r \in Readers : ReaderNext(r)
    \/ ClearLocalLogs
    \/ Tick

Spec == Init /\ [][Next]_vars

\* Producer threads against reader threads; nobody clears.
NextIngest ==
    \/ \E p \in Producers : ProducerNext(p)
    \/ \E r \in Readers : ReaderNext(r)
    \/ Tick

SpecIngest == Init /\ [][NextIngest]_vars

\* Producer threads and the monitoring thread of a single
\* enable_real_time_monitoring call.
NextMonitor ==
    \/ \E p \in Producers : ProducerNext(p)
    \/ MonitorNext("m1")
    \/ Tick

SpecMonitor == Init /\ [][NextMonitor]_vars

\* A producer thread, the clock, and a monitoring thread whose callback calls
\* the logger's own methods.
CallbackNext(m) ==
    \/ \E interval \in Intervals : EnableRealTimeMonitoring(m, Reenters, interval)
    \/ MonitorInit(m)
    \/ MonitorWake(m)
    \/ MonitorEnter(m)
    \/ MonitorRead(m)
    \/ poller[m].new_messages = <<>> /\ MonitorDeliver(m)
    \/ CallbackEnter(m)
    \/ CallbackLogAppend(m)
    \/ CallbackLogEvict(m)
    \/ CallbackClear(m)
    \/ CallbackQuery(m)
    \/ CallbackReturn(m)

NextCallback ==
    \/ ProducerNext("p1")
    \/ CallbackNext("m1")
    \/ Tick

\* A thread inside a with block runs on: the steps that end the block are
\* taken when they can be.
SpecCallback ==
    /\ Init /\ [][NextCallback]_vars
    /\ WF_vars(LogEvict("p1"))
    /\ WF_vars(MonitorRead("m1"))
    /\ WF_vars(CallbackLogEvict("m1"))

\* A producer thread, a thread that clears, the clock and a monitoring
\* thread.
NextPoll ==
    \/ ProducerNext("p1")
    \/ MonitorNext("m1")
    \/ ClearLocalLogs
    \/ Tick

SpecPoll == Init /\ [][NextPoll]_vars

\* A producer thread, a reader thread that queries, exports and takes
\* statistics, a monitoring thread, a thread that clears, and the clock.
NextViews ==
    \/ LogStart("p1", "info", "A") \/ LogAppend("p1") \/ LogEvict("p1")
    \/ GetLocalLogs("r1", "", "", Capacity) \/ ExportCopy("r1", "json")
    \/ ExportWrite("r1") \/ StatsNext("r1") \/ ReaderReturn("r1")
    \/ EnableRealTimeMonitoring("m1", "returns", 1)
    \/ MonitorInit("m1") \/ MonitorWake("m1") \/ MonitorEnter("m1")
    \/ MonitorRead("m1") \/ MonitorDeliver("m1")
    \/ ClearLocalLogs
    \/ Tick

SpecViews == Init /\ [][NextViews]_vars

\* Filters made with every combination of arguments, applied to the lists of
\* test_log_filtering's kind: messages of two components, with levels in
\* upper and in lower case.
FilterComponents == {"", "TestComp", "testcomp"}
FilterLevels == {"", "INFO", "info", "Error"}
Importances == {"", "HIGH"}

MessageLists ==
    UNION {[1..n -> [component : {"TestComp", "OtherComp"},
                     level : {"INFO", "ERROR", "info"},
                     message : {"Test"}]] : n \in 0..Capacity}

NextFilter ==
    \E r \in Readers :
        \/ \E c \in FilterComponents, l \in FilterLevels, i \in Importances,
              messages \in MessageLists : ApplyLogFilter(r, c, l, i, messages)
        \/ ReaderReturn(r)

SpecFilter == Init /\ [][NextFilter]_vars

\* One producer thread and repeated enable_real_time_monitoring calls.
NextReenable ==
    \/ ProducerNext("p1")
    \/ \E m \in Pollers : MonitorNext(m)
    \/ Tick

SpecReenable == Init /\ [][NextReenable]_vars

\* The logger as construction can leave it (lines 68-95 and 123-139): the
\* library not found or not loadable, the library loaded and getInstance
\* returning no handle or raising, the library loaded and a handle; and the
\* console in each of its states.
InitSink ==
    /\ local_queue = <<>>
    /\ queue_lock = Free
    /\ now = 0
    /\ producer = [p \in Producers |-> IdleProducer]
    /\ appended = <<>>
    /\ reader = [r \in Readers |-> IdleReader]
    /\ poller = [m \in Pollers |-> NoPoller]
    /\ delivered = [m \in Pollers |-> <<>>]
    /\ library_loaded \in BOOLEAN
    /\ logger \in IF library_loaded THEN {None, Handle} ELSE {None}
    /\ console \in ConsoleStates
    /\ printed = <<>>
    /\ configured = NotConfigured
    /\ file = Unwritable
    /\ instances = [l \in Loggers |-> NoInstance]
    /\ lists = <<>>
    /\ global_logger = NoGlobal
    /\ quick_logged = <<>>

SinkProducerNext(p) ==
    \/ \E method \in Methods : LogStart(p, method, ThreadComponent(p))
    \/ NativeCall(p)
    \/ \E outcome \in NativeOutcomes : NativeReturn(p, outcome)
    \/ LogAppend(p)
    \/ LogEvict(p)

\* One thread that logs and one that calls configure_enhanced.
NextSink ==
    \/ SinkProducerNext("p1")
    \/ \E options \in ConfigureOptions, native \in NativeOutcomes \cup {"skipped"} :
           ConfigureEnhanced(options, native)

SpecSink == InitSink /\ [][NextSink]_vars

\* The logging thread keeps running whenever a step of its own is possible;
\* nothing obliges the native function to come back.
SinkThreadRuns(p) ==
    \/ \E method \in Methods : LogStart(p, method, ThreadComponent(p))
    \/ NativeCall(p)
    \/ LogAppend(p)
    \/ LogEvict(p)

SpecSinkLive == SpecSink /\ WF_vars(SinkThreadRuns("p1"))

\* Queue contents of up to Capacity events, of every level and component
\* used, as ingestion calls leave them.
Levels == {Upper(method) : method \in Methods}

QueueContents ==
    UNION {{[i \in 1..n |-> [id |-> <<"p1", i>>, timestamp |-> 0,
                             level |-> f[i][1], component |-> f[i][2],
                             function |-> "", message |-> "m",
                             formatted_message |-> Format(0, f[i][2], "m")]] :
            f \in [1..n -> Levels \X Components]} : n \in 0..Capacity}

InitQuery ==
    /\ local_queue \in QueueContents
    /\ queue_lock = Free
    /\ now = 0
    /\ producer = [p \in Producers |->
           IF p = "p1" /\ local_queue # <<>>
           THEN [IdleProducer EXCEPT !.calls = Len(local_queue),
                                     !.native = "skipped", !.outcome = "returned"]
           ELSE IdleProducer]
    /\ appended = [i \in 1..Len(local_queue) |-> local_queue[i].id]
    /\ reader = [r \in Readers |-> IdleReader]
    /\ poller = [m \in Pollers |-> NoPoller]
    /\ delivered = [m \in Pollers |-> <<>>]
    /\ library_loaded = FALSE
    /\ logger = None
    /\ console = "works"
    /\ printed = appended
    /\ configured = NotConfigured
    /\ file = Unwritable
    /\ instances = [l \in Loggers |-> NoInstance]
    /\ lists = <<>>
    /\ global_logger = NoGlobal
    /\ quick_logged = <<>>

\* export_logs_to_file called with every format on a queue at rest, to a
\* path of every kind.
InitExport ==
    /\ local_queue \in QueueContents
    /\ queue_lock = Free
    /\ now = 0
    /\ producer = [p \in Producers |->
           IF p = "p1" /\ local_queue # <<>>
           THEN [IdleProducer EXCEPT !.calls = Len(local_queue),
                                     !.native = "skipped", !.outcome = "returned"]
           ELSE IdleProducer]
    /\ appended = [i \in 1..Len(local_queue) |-> local_queue[i].id]
    /\ reader = [r \in Readers |-> IdleReader]
    /\ poller = [m \in Pollers |-> NoPoller]
    /\ delivered = [m \in Pollers |-> <<>>]
    /\ library_loaded = FALSE
    /\ logger = None
    /\ console \in ConsoleStates
    /\ printed = IF console = "works" THEN appended ELSE <<>>
    /\ configured = NotConfigured
    /\ file \in FileStates
    /\ instances = [l \in Loggers |-> NoInstance]
    /\ lists = <<>>
    /\ global_logger = NoGlobal
    /\ quick_logged = <<>>

NextExport ==
    \E r \in Readers :
        \/ \E format \in ExportFormats : ExportCopy(r, format)
        \/ ExportWrite(r)
        \/ ReaderReturn(r)

SpecExport == InitExport /\ [][NextExport]_vars

\* A single thread that gets loggers from get_logger, under names that may be
\* the same, and calls their methods in turn.
InstanceNext(l) ==
    \/ \E a \in ApplicationNames, pn \in ProcessNames : GetLogger(l, a, pn)
    \/ \E method \in Methods : InstanceLog(l, method, "A")
    \/ InstanceClear(l)
    \/ \E limit \in {1, Capacity} : InstanceGetLocalLogs(l, limit)
    \/ InstanceStatistics(l)
    \/ InstanceExport(l)
    \/ InstanceMonitor(l, 0)

InitInstances ==
    /\ local_queue = <<>>
    /\ queue_lock = Free
    /\ now = 0
    /\ producer = [p \in Producers |-> IdleProducer]
    /\ appended = <<>>
    /\ reader = [r \in Readers |-> IdleReader]
    /\ poller = [m \in Pollers |-> NoPoller]
    /\ delivered = [m \in Pollers |-> <<>>]
    /\ library_loaded = FALSE
    /\ logger = None
    /\ console = "works"
    /\ printed = <<>>
    /\ configured = NotConfigured
    /\ file = [exists |-> FALSE, writable |-> TRUE, content |-> <<>>]
    /\ instances = [l \in Loggers |-> NoInstance]
    /\ lists = <<>>
    /\ global_logger = NoGlobal
    /\ quick_logged = <<>>

NextInstances == \E l \in Loggers : InstanceNext(l)

SpecInstances == InitInstances /\ [][NextInstances]_vars

\* The levels passed to quick_log: the default, a name in lower case, and a
\* name that is none of the six.
QuickLevels == {"INFO", "error", "WARNING"}

\* A single thread that configures the global logger, gets it, gets loggers
\* of its own, logs on what it has and calls quick_log.
NextGlobal ==
    \/ \E a \in ApplicationNames : ConfigureGlobalLogger(a)
    \/ \E l \in Loggers :
           \/ GetGlobalLogger(l)
           \/ GetLogger(l, "PythonApp", "")
           \/ InstanceLog(l, "info", "A")
    \/ \E level \in QuickLevels : QuickLog(level, "QuickComponent")

SpecGlobal == InitInstances /\ [][NextGlobal]_vars

\* One thread that makes ingestion calls one after the other, with every
\* method and with arguments supplied and left out.
NextLevels ==
    \/ \E method \in LevelMethods, args \in CallArguments : LogCall("p1", method, args)
    \/ LogAppend("p1")
    \/ LogEvict("p1")

SpecLevels == Init /\ [][NextLevels]_vars

\* A caller that queries a queue at rest and then changes what it was given.
CallerLevels == {"HACKED"}

NextAlias ==
    \E r \in Readers :
        \/ \E c \in {"", "A"}, limit \in {1, Capacity} : GetLocalLogs(r, c, "", limit)
        \/ \E i \in 1..Capacity, level \in CallerLevels : MutateReturned(r, i, level)
        \/ TruncateReturned(r)
        \/ ReaderReturn(r)

SpecAlias == InitQuery /\ [][NextAlias]_vars

\* get_log_statistics called on a queue at rest, whose events were accepted
\* within the same millisecond, the same second or seconds apart, in either
\* order.
StatsTimes == {0, TicksPerMs, Second, 2 * Second}

StatsContents ==
    UNION {{[i \in 1..n |-> [id |-> <<"p1", i>>, timestamp |-> f[i][3],
                             level |-> f[i][1], component |-> f[i][2],
                             function |-> "", message |-> "m",
                             formatted_message |-> Format(f[i][3], f[i][2], "m")]] :
            f \in [1..n -> Levels \X Components \X StatsTimes]} : n \in 0..Capacity}

InitStats ==
    /\ local_queue \in StatsContents
    /\ queue_lock = Free
    /\ now = 2 * Second
    /\ producer = [p \in Producers |->
           IF p = "p1" /\ local_queue # <<>>
           THEN [IdleProducer EXCEPT !.calls = Len(local_queue),
                                     !.native = "skipped", !.outcome = "returned"]
           ELSE IdleProducer]
    /\ appended = [i \in 1..Len(local_queue) |-> local_queue[i].id]
    /\ reader = [r \in Readers |-> IdleReader]
    /\ poller = [m \in Pollers |-> NoPoller]
    /\ delivered = [m \in Pollers |-> <<>>]
    /\ library_loaded = FALSE
    /\ logger = None
    /\ console = "works"
    /\ printed = appended
    /\ configured = NotConfigured
    /\ file = Unwritable
    /\ instances = [l \in Loggers |-> NoInstance]
    /\ lists = <<>>
    /\ global_logger = NoGlobal
    /\ quick_logged = <<>>

NextStats == \E r \in Readers : StatsNext(r) \/ ReaderReturn(r)

SpecStats == InitStats /\ [][NextStats]_vars

\* get_local_logs called with every combination of arguments on a queue at
\* rest.
NextQuery ==
    \E r \in Readers :
        \/ \E c \in ComponentFilters, l \in LevelFilters, limit \in Limits :
               GetLocalLogs(r, c, l, limit)
        \/ GetLocalLogsDefault(r)
        \/ ReaderReturn(r)

SpecQuery == InitQuery /\ [][NextQuery]_vars

\* ------------------------------------------------------------------ claims

\* The last n elements of s (all of s when it has fewer).
LastN(s, n) == SubSeq(s, Len(s) - Min(n, Len(s)) + 1, Len(s))

QueueIds == [i \in 1..Len(local_queue) |-> local_queue[i].id]

\* C1: whenever no ingestion call is inside its locked region (so after each
\* call of a sequential run), the queue holds min(events recorded, Capacity)
\* events, and they are the most recently recorded ones in the order in
\* which they were recorded.
C1_CapacityInvariant ==
    queue_lock = Free =>
        /\ Len(local_queue) = Min(Len(appended), Capacity)
        /\ QueueIds = LastN(appended, Capacity)

\* More events were recorded than the queue holds, and the oldest is gone.
C1_Witness ==
    /\ queue_lock = Free
    /\ Len(appended) > Capacity
    /\ Len(local_queue) = Capacity
    /\ appended[1] \notin {local_queue[i].id : i \in 1..Len(local_queue)}

ProducersDone ==
    /\ CallsMade = TotalCalls
    /\ \A p \in Producers : producer[p].pc = "idle"

\* A thread in the middle of a call can take its next step, or waits for the
\* lock while the thread that holds the lock can take its next step.
CanProceed ==
    /\ \A p \in Producers :
           /\ producer[p].pc = "append" =>
                  \/ queue_lock = Free
                  \/ queue_lock \in Producers /\ ENABLED LogEvict(queue_lock)
           /\ producer[p].pc = "evict" => ENABLED LogEvict(p)
    /\ \A r \in Readers :
           reader[r].pc \notin {"idle", "raised"} => ENABLED ReaderNext(r)

ObservedCount(r) ==
    CASE reader[r].op = "get_local_logs" -> Len(reader[r].result)
      [] reader[r].op = "export_logs_to_file" -> reader[r].result.count
      [] reader[r].op = "get_log_statistics" -> reader[r].result.total_messages

\* C2: no reader observes more than Capacity events: not in the list
\* get_local_logs returns, not in total_messages, not in the number of
\* records exported, not in a batch of the monitoring thread.
C2_ReadersSeeAtMostCapacity ==
    /\ \A r \in Readers : reader[r].pc = "return" => ObservedCount(r) <= Capacity
    /\ \A m \in Pollers : Len(poller[m].new_messages) <= Capacity

\* The events of logs that pass the filters: the component equal to c, the
\* level equal to l whatever the case of l, an empty filter passing all.
Matching(logs, c, l) ==
    SelectSeq(logs, LAMBDA e : /\ (c = "" \/ e.component = c)
                               /\ (l = "" \/ e.level = Upper(l)))

\* C4: get_local_logs(c, l, limit) returns the last limit events, in
\* insertion order, of those of the queue that pass the filters, for every
\* limit >= 0.
C4_FilterCorrect ==
    \A r \in Readers :
        (reader[r].pc = "return" /\ reader[r].op = "get_local_logs") =>
            reader[r].result =
                LastN(Matching(reader[r].logs, reader[r].args[1], reader[r].args[2]),
                      reader[r].args[3])

\* The same for every limit >= 1.
QueryCorrectForPositiveLimit ==
    \A r \in Readers :
        (reader[r].pc = "return" /\ reader[r].op = "get_local_logs"
            /\ reader[r].args[3] >= 1) =>
            reader[r].result =
                LastN(Matching(reader[r].logs, reader[r].args[1], reader[r].args[2]),
                      reader[r].args[3])

\* C5: the statistics returned for a non-empty queue are consistent: the
\* level counts and the component counts both add up to total_messages.
C5_StatisticsConsistent ==
    \A r \in Readers :
        (/\ reader[r].pc = "return"
         /\ reader[r].op = "get_log_statistics"
         /\ reader[r].result.total_messages > 0) =>
            /\ SumValues(reader[r].result.level_distribution)
                   = reader[r].result.total_messages
            /\ SumValues(reader[r].result.component_distribution)
                   = reader[r].result.total_messages

\* Reader r is between the first and the last read of logs of its call.
Reading(r) ==
    reader[r].pc \in {"empty", "levels", "components", "range", "oldest", "newest", "build"}

\* C6: the list a reader works from is a copy of its own: from the first
\* read to the last, no step of another thread changes it.
C6_ReadersUseSnapshot ==
    [][\A r \in Readers : (Reading(r) /\ Reading(r)') => ReaderLogs(r)' = ReaderLogs(r)]_vars

\* The monitoring thread m exists and has not ended.
Running(m) == poller[m].pc \in {"start", "wake", "read", "filter", "deliver"}

Ids(batch) == {batch[i].id : i \in 1..Len(batch)}

\* Ids of the events passed to monitoring thread m's callback so far.
DeliveredIds(m) == UNION {Ids(delivered[m][k]) : k \in 1..Len(delivered[m])}

\* How many of the batches passed to m's callback hold the event id.
TimesDelivered(m, id) == Cardinality({k \in 1..Len(delivered[m]) : id \in Ids(delivered[m][k])})

\* C7: with a callback that returns, nobody clearing and no event evicted,
\* no event is skipped: when a poll has read the queue, every event it found
\* there whose ingestion call began after monitoring_loop began is in the
\* batch of this poll or was passed to the callback by an earlier one.
C7_NoEventSkipped ==
    \A m \in Pollers :
        (/\ poller[m].pc = "deliver"
         /\ poller[m].callback = "returns"
         /\ Len(appended) <= Capacity) =>
            \A i \in 1..Len(poller[m].snapshot) :
                LET e == poller[m].snapshot[i]
                IN  e.id \notin poller[m].prior =>
                        \/ e.id \in Ids(poller[m].new_messages)
                        \/ e.id \in DeliveredIds(m)

\* An event a poll passes over is passed over by every later poll of the
\* same thread: last_check_time never moves back.
LastCheckNeverDecreases ==
    [][\A m \in Pollers :
          poller[m].pc \notin {"none", "start"} =>
              poller'[m].last_check_time >= poller[m].last_check_time]_vars

\* C8: no event is passed to the callback more than once.
C8_NoDuplicateDelivery ==
    \A m \in Pollers : \A id \in EnteredIds : TimesDelivered(m, id) <= 1

\* C9: at most one monitoring thread exists per logger at any moment.
C9_AtMostOnePoller == Cardinality({m \in Pollers : Running(m)}) <= 1

\* C10: a running monitoring thread can be stopped: whenever one runs with a
\* callback that does not raise, some step of the program ends it.
C10_RunningPollerCanBeStopped ==
    \A m \in Pollers :
        (Running(m) /\ poller[m].callback # "raises") =>
            ENABLED (NextMonitor /\ ~Running(m)')

\* A monitoring thread whose callback does not raise never ends.
NonRaisingPollerNeverEnds ==
    [][\A m \in Pollers :
          (Running(m) /\ poller[m].callback # "raises") => Running(m)']_vars

\* ---------------------------------------------------------- sink isolation

\* Whether the native logger is missing: the library not found or not
\* loadable, or no handle from getInstance.
BufferOnly == ~library_loaded \/ logger = None

\* How many times the event with this id was appended.
AppendCount(id) == Cardinality({i \in 1..Len(appended) : appended[i] = id})

\* The ingestion calls of thread p that are past their append: all the
\* earlier ones, and the present one from the eviction on.
PastAppend(p) ==
    {<<p, k>> : k \in 1..producer[p].calls} \
        (IF producer[p].pc \in {"native", "in_native", "append"}
         THEN {<<p, producer[p].calls>>} ELSE {})

\* Whether thread p has made an ingestion call that is over.
CallOver(p) == producer[p].pc = "idle" /\ producer[p].calls > 0

\* What of C11 the code does: no failure of a sink keeps an event out of the
\* buffer, and the native failure of a call that the console accepts does
\* not keep its line off the console.
SinkFailureNeverPreventsAppend ==
    \A p \in Producers :
        /\ \A id \in PastAppend(p) : AppendCount(id) = 1
        /\ CallOver(p) /\ producer[p].native = "raised" /\ console = "works"
               => \E i \in 1..Len(printed) : printed[i] = <<p, producer[p].calls>>

\* C11: no failure of the native call or of the console output of an
\* ingestion call reaches the caller (no call ends by raising), none keeps
\* the event out of the buffer, and a failed native call does not keep the
\* event's line off the console.
C11_SinkFailuresIsolated ==
    /\ SinkFailureNeverPreventsAppend
    /\ \A p \in Producers : producer[p].outcome # "raised"

\* C12: an ingestion call that has entered the native function gets its
\* event appended and returns, whether or not the native function comes
\* back.
C12_IngestionDoesNotWaitOnSink ==
    \A p \in Producers :
        (producer[p].pc = "in_native") ~> (producer[p].pc = "idle")

Exported(r) == reader[r].pc = "return" /\ reader[r].op = "export_logs_to_file"

\* C15: an export that fails (the file cannot be opened, a write is refused
\* part-way, the format is unknown) leaves the file as it was before the
\* call: not created, not emptied, not partly written.
C15_FailedExportLeavesFile ==
    [][\A r \in Readers :
          (/\ reader[r].pc = "export"
           /\ reader'[r].pc # "export"
           /\ reader'[r].result.fault # "none") => file' = file]_vars

\* What the caller of an export gets to see: the value returned and the
\* line printed.
Outcome(r) == [value |-> reader[r].result.value, message |-> reader[r].result.message]

SuccessOutcome == [value |-> None, message |-> "Exported"]

\* C16: an export that failed on the destination or on the format gives its
\* caller an outcome that differs from the outcome of a success.
C16_FailureReported ==
    \A r \in Readers :
        Exported(r) /\ reader[r].result.fault \in {"open", "format"}
            => Outcome(r) # SuccessOutcome

\* C17: after an export in the json, csv or txt format that reported
\* success the file exists and holds the whole serialization of the copy the
\* call took, for csv the header and one row per event.
C17_SuccessMeansComplete ==
    \A r \in Readers :
        (/\ Exported(r)
         /\ Outcome(r) = SuccessOutcome
         /\ Lower(reader[r].args[1]) \in {"json", "csv", "txt"})
            => /\ file.exists
               /\ file.content = Serialize(Lower(reader[r].args[1]), reader[r].logs)

\* C18: with no producer running, the queue during and after an export,
\* failed or not, of whatever format, is the queue the call found.
C18_ExportLeavesBuffer ==
    \A r \in Readers :
        reader[r].op = "export_logs_to_file" => local_queue = reader[r].logs

\* An export of a full queue has failed part-way.
C18_Witness ==
    \E r \in Readers :
        /\ Exported(r)
        /\ reader[r].result.fault = "write"
        /\ Len(local_queue) = Capacity

C20_InstancesShareNothing ==
    [][\A l \in Loggers : \A other \in Loggers \ {l} :
          (/\ instances[l] # NoInstance
           /\ instances[other] # NoInstance
           /\ instances'[l] # instances[l]) => Buffer(other)' = Buffer(other)]_vars

\* Two loggers obtained under the same application and process name, one
\* with a full buffer and the other cleared after it had logged.
C20_Witness ==
    /\ instances["logger1"] # NoInstance
    /\ instances["logger2"] # NoInstance
    /\ instances["logger1"].application_name = instances["logger2"].application_name
    /\ instances["logger1"].process_name = instances["logger2"].process_name
    /\ Len(Buffer("logger1")) = Capacity
    /\ instances["logger2"].calls > 0
    /\ instances["logger2"].last = <<"clear_local_logs">>
    /\ Buffer("logger2") = <<>>

\* -------------------------------------------------- statistics and ordering

\* C23: get_log_statistics never raises, whatever ingestion calls and
\* clear_local_logs calls run beside it, and on an empty buffer it returns
\* total_messages = 0.
C23_StatisticsNeverRaises ==
    \A r \in Readers :
        /\ reader[r].op = "get_log_statistics" => reader[r].pc # "raised"
        /\ (/\ reader[r].op = "get_log_statistics"
            /\ reader[r].pc = "return"
            /\ appended = <<>>) => reader[r].result = [total_messages |-> 0]

\* C27: in every state the timestamps of the buffered events do not
\* decrease from one event to the next in the order they were inserted.
C27_TimestampsInInsertionOrder ==
    \A i \in 1..Len(local_queue) : \A j \in i..Len(local_queue) :
        local_queue[i].timestamp <= local_queue[j].timestamp

\* C22: after a clear and N ingestion calls, no more than the queue holds,
\* get_local_logs() with no argument returns at least N events: all the
\* events buffered.
C22_DefaultQueryReturnsAll ==
    \A r \in Readers :
        (/\ reader[r].pc = "return"
         /\ reader[r].op = "get_local_logs"
         /\ Len(reader[r].args) = 4) => Len(reader[r].result) >= Len(reader[r].logs)

\* ---------------------------------------------------------------- filters

\* The spellings of one level name.
LevelSpellings ==
    {{"trace", "Trace", "TRACE"}, {"debug", "Debug", "DEBUG"}, {"info", "Info", "INFO"},
     {"warn", "Warn", "WARN"}, {"error", "Error", "ERROR"},
     {"critical", "Critical", "CRITICAL"}}

SameLevel(a, b) == \E spellings \in LevelSpellings : a \in spellings /\ b \in spellings

\* Whether event e passes the filters c and l, "" standing for no filter.
Passes(e, c, l) ==
    /\ c = "" \/ e.component = c
    /\ l = "" \/ SameLevel(e.level, l)

\* C28: the filters of get_local_logs are conjunctive, the level filter
\* ignores case and the component filter is exact: the result holds only
\* events that pass both filters, all of them when the limit allows, and
\* the same events for every spelling of the level.
C28_FilterSemantics ==
    \A r \in Readers :
        (reader[r].pc = "return" /\ reader[r].op = "get_local_logs") =>
            LET c == reader[r].args[1]
                l == reader[r].args[2]
                limit == reader[r].args[3]
                logs == reader[r].logs
                result == reader[r].result
            IN  /\ \A i \in 1..Len(result) : Passes(result[i], c, l)
                /\ limit >= Len(logs) /\ limit > 0
                       => result = SelectSeq(logs, LAMBDA e : Passes(e, c, l))
                /\ \A other \in LevelFilters \ {""} :
                       SameLevel(l, other) => FilterLogs(logs, c, other, limit) = result

\* A query for component "A" and level "info" on a full queue has returned
\* one event and left out another.
C28_Witness ==
    \E r \in Readers :
        /\ reader[r].pc = "return" /\ reader[r].op = "get_local_logs"
        /\ reader[r].args = <<"A", "info", Capacity>>
        /\ Len(reader[r].result) = 1
        /\ Len(reader[r].logs) = Capacity

\* The number of events of the sequence logs whose field has the value k.
Occurrences(logs, field, k) ==
    Cardinality({i \in 1..Len(logs) : logs[i][field] = k})

\* The distribution of a field over logs: exactly the values that occur,
\* each with its number of occurrences.
Distribution(logs, field) ==
    [k \in {logs[i][field] : i \in 1..Len(logs)} |-> Occurrences(logs, field, k)]

TimeRange(logs) ==
    IF Len(logs) < 2 THEN 0 ELSE logs[Len(logs)].timestamp - logs[1].timestamp

StatsReturned(r) ==
    reader[r].pc = "return" /\ reader[r].op = "get_log_statistics"

\* C24, as stated: for every buffer content, the empty one included, the
\* statistics of a buffer at rest have all five entries with the stated values.
C24_AllEntriesForEveryContent ==
    \A r \in Readers :
        StatsReturned(r) =>
            /\ DOMAIN reader[r].result =
                   {"total_messages", "level_distribution", "component_distribution",
                    "time_range_seconds", "messages_per_second"}
            /\ reader[r].result.total_messages = Len(local_queue)

\* C24, amended: for every non-empty buffer content S at rest,
\* get_log_statistics returns total_messages = |S|, the exact level and
\* component distributions (no key with count 0), time_range_seconds =
\* timestamp(last) - timestamp(first) (0 when |S| < 2) and messages_per_second
\* = total_messages / max(time_range_seconds, 1); for the empty buffer it
\* returns total_messages = 0 and no other entry.
C24_StatisticsOfBufferAtRest ==
    \A r \in Readers :
        StatsReturned(r) =>
            IF local_queue = <<>>
            THEN reader[r].result = [total_messages |-> 0]
            ELSE reader[r].result =
                     [total_messages |-> Len(local_queue),
                      level_distribution |-> Distribution(local_queue, "level"),
                      component_distribution |-> Distribution(local_queue, "component"),
                      time_range_seconds |-> TimeRange(local_queue),
                      messages_per_second |->
                          IF TimeRange(local_queue) > Second
                          THEN Rate(Len(local_queue), TimeRange(local_queue))
                          ELSE <<Len(local_queue), 1>>]

\* Statistics were returned for a full buffer of one level and two
\* components whose events are more than a second apart, at a rate that is
\* not a whole number.
C24_Witness ==
    \E r \in Readers :
        /\ StatsReturned(r)
        /\ Len(local_queue) = Capacity
        /\ TimeRange(local_queue) > Second
        /\ Cardinality(DOMAIN reader[r].result.level_distribution) = 1
        /\ Cardinality(DOMAIN reader[r].result.component_distribution) = 2
        /\ reader[r].result.messages_per_second[2] > 1

\* The ways in which one step may change the buffer: not at all; by one event
\* that is inserted in this very step, at the end; by the eviction of the
\* oldest event, by the thread that holds the lock; or by a clear, which
\* leaves nothing.
BufferUntouched == local_queue' = local_queue

BufferInsertion ==
    /\ Len(appended') = Len(appended) + 1
    /\ Len(local_queue') = Len(local_queue) + 1
    /\ SubSeq(local_queue', 1, Len(local_queue)) = local_queue
    /\ local_queue'[Len(local_queue')].id = appended'[Len(appended')]

BufferEviction ==
    /\ queue_lock \in Producers
    /\ Len(local_queue) > Capacity
    /\ local_queue' = Tail(local_queue)

BufferCleared ==
    /\ queue_lock = Free
    /\ queue_lock' = Free
    /\ local_queue' = <<>>
    /\ appended' = appended

\* C25: clear_local_logs empties the buffer in one step, taken while no
\* thread holds the lock: no state has a buffer from which a clear has removed
\* some events and not others, and the only events a later state's buffer
\* holds are those inserted by later steps.
C25_ClearIsAtomic ==
    [][BufferUntouched \/ BufferInsertion \/ BufferEviction \/ BufferCleared]_vars

\* Every call has returned, more events were inserted than the buffer holds
\* and than one eviction accounts for, and the buffer holds the last one only:
\* a clear came between the insertions.
C25_Witness ==
    /\ \A p \in Producers : producer[p].pc = "idle"
    /\ Len(appended) = TotalCalls
    /\ Len(local_queue) = 1
    /\ Len(local_queue) < Min(Len(appended), Capacity)
    /\ local_queue[1].id = appended[Len(appended)]

\* The positions of the events of logs that are later than the time t, and
\* the events at these positions, in the order of the positions.
LaterPositions(logs, t) == {i \in 1..Len(logs) : logs[i].timestamp > t}

LaterEvents(logs, t) ==
    LET positions == LaterPositions(logs, t)
    IN  [k \in 1..Cardinality(positions) |->
            logs[CHOOSE i \in positions :
                     Cardinality({j \in positions : j <= i}) = k]]

\* C30: the step of a wake-up that follows its snapshot hands the callback
\* exactly the snapshot's events that are strictly later than the time the
\* previous wake-up left in last_check_time, in the snapshot's order, and
\* calls it only when there is such an event.
C30_BatchIsTheLaterEvents ==
    [][\A m \in Pollers :
           (poller[m].pc = "deliver" /\ poller'[m].pc # "deliver") =>
               LET batch == LaterEvents(poller[m].snapshot, poller[m].last_check_time)
               IN  IF batch # <<>> /\ poller[m].callback # None
                   THEN delivered'[m] = Append(delivered[m], batch)
                   ELSE delivered'[m] = delivered[m]]_vars

\* A thread that has called its callback before is at a wake-up whose
\* snapshot holds events on both sides of last_check_time.
C30_Witness ==
    \E m \in Pollers :
        /\ delivered[m] # <<>>
        /\ poller[m].pc = "deliver"
        /\ poller[m].new_messages # <<>>
        /\ Len(poller[m].new_messages) < Len(poller[m].snapshot)

\* C26: a thread that holds the buffer lock is at the append, the eviction,
\* the clear or the copy, and at nothing else: not at the native call, the
\* console output, the export's writing, the callback, nor at the filtering
\* of events and the parsing of their timestamps (of which there is some
\* when the buffer holds an event).
C26_LockOnlyForStructure ==
    /\ \A p \in Producers : queue_lock = p => producer[p].pc = "evict"
    /\ \A r \in Readers : queue_lock # r
    /\ \A m \in Pollers :
           queue_lock = m => ~(poller[m].pc = "filter" /\ local_queue # <<>>)

\* A step in which a caller changes the result it holds: its list, or a
\* record in it.
CallerStep ==
    \E r \in Readers :
        /\ reader[r].pc = "return" /\ reader[r].op = "get_local_logs"
        /\ reader'[r].pc = "return"
        /\ reader'[r].result # reader[r].result

\* C21: nothing a caller does to the list get_local_logs returned, or to
\* the event records in it, changes the events the buffer holds.
C21_ResultsAreIndependent ==
    [][CallerStep => local_queue' = local_queue]_vars

\* The upper-case name of each ingestion method.
LevelNames ==
    [trace |-> "TRACE", debug |-> "DEBUG", info |-> "INFO", warn |-> "WARN",
     error |-> "ERROR", critical |-> "CRITICAL"]

\* What a caller supplied for a parameter, or the value named for it when
\* the caller supplied none.
Supplied(args, name, otherwise) ==
    IF name \in DOMAIN args THEN args[name] ELSE otherwise

\* C29: the step in which an ingestion call of a single thread returns leaves
\* as the newest element of the buffer the one event of this call, whose level
\* is the upper-case name of the method, whose message, component and function
\* are the caller's, component being "Python" and function "" when the caller
\* gave none; the call has inserted one event; and every level in the buffer
\* is one of the six names.
C29_CallAppendsItsEvent ==
    [][/\ \A p \in Producers :
            (producer[p].pc = "evict" /\ producer'[p].pc = "idle") =>
                LET call == producer[p].call
                    newest == local_queue'[Len(local_queue')]
                IN  /\ local_queue' # <<>>
                    /\ newest.id = <<p, producer[p].calls>>
                    /\ newest.level = LevelNames[call.method]
                    /\ newest.message = call.args.message
                    /\ newest.component = Supplied(call.args, "component", "Python")
                    /\ newest.function = Supplied(call.args, "function", "")
                    /\ Cardinality({i \in 1..Len(appended') :
                                       appended'[i] = newest.id}) = 1
                    /\ Cardinality({i \in 1..Len(local_queue') :
                                       local_queue'[i].id = newest.id}) = 1
       /\ \A i \in 1..Len(local_queue') :
              local_queue'[i].level \in {LevelNames[method] : method \in LevelMethods}]_vars

\* The last of TotalCalls calls, critical(message) with neither component
\* nor function, has returned; its event is the newest of a full buffer.
C29_Witness ==
    /\ producer["p1"].pc = "idle"
    /\ producer["p1"].outcome = "returned"
    /\ producer["p1"].calls = TotalCalls
    /\ Len(local_queue) = Capacity
    /\ LET newest == local_queue[Len(local_queue)]
       IN  /\ newest.id = <<"p1", TotalCalls>>
           /\ newest.level = "CRITICAL"
           /\ newest.message = "Mixed Case"
           /\ newest.component = "Python"
           /\ newest.function = ""

\* A monitoring thread at its sleep, at the call of its callback or inside
\* the callback between two calls on the logger.
OutsideTheBlocks(m) ==
    poller[m].pc \in {"start", "wake", "read", "deliver", "in_callback", "callback_return"}

\* A thread that is at the entry of a with block.
WaitsForLock(t) ==
    \/ t \in Producers /\ producer[t].pc = "append"
    \/ t \in Pollers /\ poller[t].pc \in {"read", "in_callback"}

\* The thread that holds the lock can take the step that releases it.
HolderCanRelease ==
    /\ queue_lock \in Producers => ENABLED LogEvict(queue_lock)
    /\ queue_lock \in Pollers =>
           ENABLED MonitorRead(queue_lock) \/ ENABLED CallbackLogEvict(queue_lock)

\* C31: the monitoring thread does not hold the buffer lock while it sleeps
\* or runs its callback; whenever a thread waits for the lock, the lock is
\* free or its holder can go on to release it, also when the waiting thread is
\* the callback calling the logger; and every acquisition of the lock is
\* followed by its release.
C31_LockAlwaysReleased ==
    /\ [](\A m \in Pollers : OutsideTheBlocks(m) => queue_lock # m)
    /\ [](\A t \in Producers \cup Pollers :
              WaitsForLock(t) => (queue_lock = Free \/ HolderCanRelease))
    /\ \A t \in Producers \cup Pollers : (queue_lock = t) ~> (queue_lock = Free)

\* The callback has logged an event on the logger it monitors, evicting the
\* oldest event, and has returned; the thread sleeps.
C31_Witness ==
    /\ poller["m1"].pc = "wake"
    /\ queue_lock = Free
    /\ delivered["m1"] # <<>>
    /\ \E k \in 1..Len(appended) : appended[k] = <<"m1", 1>>
    /\ Len(appended) > Capacity
    /\ Len(local_queue) = Capacity

\* Ids of the events inserted so far, and of those among them that the
\* buffer no longer holds.
InsertedIds == {appended[k] : k \in 1..Len(appended)}

RemovedIds == InsertedIds \ Ids(local_queue)

\* C32: what a poll reads is the buffer as it is at that moment; the batch
\* its callback gets holds only events of that read, so none that eviction or
\* a clear had removed before it; and an event once removed never comes back
\* into the buffer for a later poll to find.
C32_OnlyBufferedEventsDelivered ==
    [][/\ \A m \in Pollers :
            (poller[m].pc = "filter" /\ poller'[m].pc = "deliver") =>
                /\ poller'[m].snapshot = local_queue
                /\ Ids(poller'[m].new_messages) \cap RemovedIds = {}
       /\ \A m \in Pollers :
            delivered'[m] # delivered[m] =>
                /\ Len(delivered'[m]) = Len(delivered[m]) + 1
                /\ Ids(delivered'[m][Len(delivered'[m])]) \subseteq Ids(poller[m].snapshot)
       /\ Ids(local_queue') \cap RemovedIds = {}]_vars

\* A callback has been given a batch, while an event inserted after the
\* monitoring thread began is gone from the buffer without ever having been
\* in a batch.
C32_Witness ==
    \E m \in Pollers :
        /\ delivered[m] # <<>>
        /\ \E id \in RemovedIds : id \notin poller[m].prior /\ id \notin DeliveredIds(m)

\* C33: every event the buffer holds after a step has as its
\* formatted_message "[" timestamp "] [" component "] " message of its own
\* fields, and an event that the buffer held before the step has the
\* formatted_message it had: no query, statistics, export, monitoring or other
\* step renders it again or changes it.
C33_FormattedOnceAtInsertion ==
    [][/\ \A i \in 1..Len(local_queue') :
            LET e == local_queue'[i]
            IN  e.formatted_message =
                    <<"[", e.timestamp, "] [", e.component, "] ", e.message>>
       /\ \A i \in 1..Len(local_queue) : \A j \in 1..Len(local_queue') :
            local_queue[i].id = local_queue'[j].id =>
                local_queue'[j].formatted_message = local_queue[i].formatted_message]_vars

\* A reader's call has returned and a batch has been given to a callback
\* while the buffer, full after an eviction, holds an event accepted after
\* the clock's first millisecond.
C33_Witness ==
    /\ reader["r1"].pc = "return"
    /\ delivered["m1"] # <<>>
    /\ Len(appended) > Capacity
    /\ Len(local_queue) = Capacity
    /\ local_queue[Capacity].formatted_message = <<"[", TicksPerMs, "] [", "A", "] ", "m">>

\* ------------------------------------------------------ module-level functions

\* The lists that existed before a step are after it what they were.
ListsKept == \A k \in 1..Len(lists) : lists'[k] = lists[k]

\* C34: _global_logger, which is what get_global_logger returns, is no
\* logger while configure_global_logger has not been called; after a call it is
\* the logger that call constructed, under the name passed to it, with a list
\* of its own that is empty and that no earlier logger has, every earlier
\* list keeping its events; and a caller that gets the global logger gets that
\* object.
C34_GlobalIsLatestConfigured ==
    [][/\ global_logger'.calls = 0 => global_logger'.logger = NoLogger
       /\ global_logger'.calls > 0 =>
              /\ global_logger'.logger # NoLogger
              /\ global_logger'.logger.application_name = global_logger'.name
       /\ global_logger'.calls # global_logger.calls =>
              /\ global_logger'.logger.local_queue \notin 1..Len(lists)
              /\ lists'[global_logger'.logger.local_queue] = <<>>
              /\ ListsKept
       /\ \A l \in Loggers :
              (instances'[l] # instances[l] /\ instances'[l].last = <<"get_global_logger">>) =>
                  /\ instances'[l].local_queue = global_logger.logger.local_queue
                  /\ instances'[l].application_name = global_logger.name]_vars

\* The global logger was configured as App1, obtained and logged on, then
\* configured as App2 and obtained again: the first still holds its event,
\* the second holds none.
C34_Witness ==
    /\ global_logger.calls = 2
    /\ global_logger.name = "App2"
    /\ instances["logger1"].last = <<"info">>
    /\ instances["logger1"].application_name = "App1"
    /\ Len(Buffer("logger1")) = 1
    /\ instances["logger2"].last = <<"get_global_logger">>
    /\ instances["logger2"].application_name = "App2"
    /\ Buffer("logger2") = <<>>

\* A step of quick_log.
QuickLogStep == quick_logged' # quick_logged

\* The list of the logger the quick_log call of this step made.
QuickList == lists'[quick_logged'[Len(quick_logged')]]

\* C38, first part: every quick_log call records its message in the logger
\* it makes.
C38_QuickLogRecordsItsMessage ==
    [][QuickLogStep => (Len(QuickList) = 1 /\ QuickList[1].message = "m")]_vars

\* The rest of C38: the logger of a quick_log call has a list that no logger
\* had before, the global logger's and every other logger's list is after the
\* call what it was, and no two quick_log calls have used the same list.
QuickLogTouchesNothingElse ==
    [][QuickLogStep =>
          /\ quick_logged'[Len(quick_logged')] \notin 1..Len(lists)
          /\ ListsKept
          /\ global_logger' = global_logger
          /\ instances' = instances
          /\ \A i \in 1..Len(quick_logged') : \A j \in 1..Len(quick_logged') :
                 quick_logged'[i] = quick_logged'[j] => i = j]_vars

\* The level a filter's level argument asks for.
AskedLevel == [INFO |-> "INFO", info |-> "INFO", Error |-> "ERROR"]

\* The positions of the messages a filter made with c and l keeps, and the
\* messages at these positions in their order.
KeptPositions(messages, c, l) ==
    {i \in 1..Len(messages) :
        /\ c = "" \/ messages[i].component = c
        /\ l = "" \/ messages[i].level = AskedLevel[l]}

Kept(messages, c, l) ==
    LET positions == KeptPositions(messages, c, l)
    IN  [k \in 1..Cardinality(positions) |->
            messages[CHOOSE i \in positions :
                         Cardinality({j \in positions : j <= i}) = k]]

FilterReturned(r) == reader[r].pc = "return" /\ reader[r].op = "filter_function"

C36_RaisingCallbackEndsPoller ==
    [][/\ \A m \in Pollers :
            (poller[m].callback = "raises" /\ delivered'[m] # delivered[m]) =>
                /\ poller'[m].pc = "dead"
                /\ local_queue' = local_queue
                /\ producer' = producer
                /\ reader' = reader
       /\ \A m \in Pollers :
            poller[m].pc = "dead" =>
                (poller'[m].pc = "dead" /\ delivered'[m] = delivered[m])
       /\ \A p \in Producers : producer'[p].outcome # "raised"]_vars

\* The callback raised at its first batch; an ingestion call entered
\* afterwards has returned, and its event, later than the last check, is in
\* the buffer and in no batch.
C36_Witness ==
    \E m \in Pollers :
        /\ poller[m].pc = "dead"
        /\ Len(delivered[m]) = 1
        /\ \A p \in Producers : producer[p].pc = "idle"
        /\ \E i \in 1..Len(local_queue) :
               /\ local_queue[i].id \notin DeliveredIds(m)
               /\ local_queue[i].timestamp > poller[m].last_check_time
               /\ local_queue[i].timestamp > poller[m].current_time

\* C37: when a monitoring thread begins, every event appended so far, and
\* so every event appended before enable_real_time_monitoring was called, is
\* among those it takes note of as prior; and no event among these is ever in
\* a batch passed to that thread's callback.
C37_EarlierEventsNeverDelivered ==
    [][/\ \A m \in Pollers :
            (poller[m].pc = "start" /\ poller'[m].pc = "wake") =>
                InsertedIds \subseteq poller'[m].prior
       /\ \A m \in Pollers :
            /\ UNION {Ids(delivered'[m][k]) : k \in 1..Len(delivered'[m])}
                   \cap poller'[m].prior = {}
            /\ poller[m].pc \notin {"none", "start"} => poller'[m].prior = poller[m].prior]_vars

\* A poll is about to pass a batch to a callback that has had one before,
\* from a buffer that still holds an event appended before the thread began.
C37_Witness ==
    \E m \in Pollers :
        /\ poller[m].pc = "deliver"
        /\ poller[m].callback = "returns"
        /\ poller[m].new_messages # <<>>
        /\ Ids(poller[m].snapshot) \cap poller[m].prior \cap InsertedIds # {}
        /\ poller[m].last_check_time > 0

====
